---- MODULE Spec2Model ----
(***************************************************************************)
(* A2A inter-agent task protocol: push-notification authentication,        *)
(* process-wide cache, remote connection adapter and streaming client.     *)
(* Each subsystem has its own specification over the shared variables; the *)
(* variables of the other subsystems stay at their initial values.         *)
(***************************************************************************)
EXTENDS Integers, Sequences, FiniteSets, TLC

VARIABLES
    \* ---- push-notification auth (common/utils/push_notification_auth.py)
    now,               \* the clock, in ticks of 1/TicksPerSecond second
    public_keys,       \* PushNotificationSenderAuth.public_keys (key ids, in order)
    private_key_jwk,   \* PushNotificationSenderAuth.private_key_jwk (key id, 0 = None)
    jwks_client,       \* PushNotificationReceiverAuth.jwks_client
    request,           \* the HTTP request presented to the receiver
    verdict,           \* outcome of verify_push_notification on request
    seen_expired,      \* request was rejected as expired since it was presented
    from_sender,       \* request is what send_push_notification posted, unchanged
    \* ---- process-wide cache (common/utils/in_memory_cache.py)
    cls_instance,      \* InMemoryCache._instance (0 = None, else an instance id)
    cls_initialized,   \* InMemoryCache._initialized, the class attribute
    cls_lock,          \* InMemoryCache._lock: the thread holding it, 0 = free
    instances,         \* the InMemoryCache objects created so far, by id
    pc,                \* where each thread is in InMemoryCache()
    self_,             \* the object each thread's __new__ returned (0 = none yet)
    calls,             \* constructor calls each thread has started
    constructed,       \* the objects constructor calls have returned so far
    init_at_start,     \* per thread: the initialized instance cls._instance named
                       \* when its constructor call began (0 = none)
    cache_now,         \* time.time() as the cache reads it
    cache_last,        \* the last set/get/delete/clear call and what it returned
    written,           \* per key: what the last set stored, if the key has not
                       \* been deleted or cleared since
    cache_op,          \* per thread: the cache method it is inside, and where
    \* ---- merge_metadata (hosts/multi_agent/remote_agent_connection.py)
    merge_target,      \* the target object, before and then after the call
    merge_source,      \* the source object
    merge_before,      \* the target as it was passed in
    merge_done,        \* merge_metadata has returned
    \* ---- RemoteAgentConnections.send_task and its caller HostAgent.send_task
    ad_pc,             \* "new", "idle", "streaming" (inside the async for) or
                       \* "returned"
    ad_request,        \* the TaskSendParams of the call in progress
    ad_sends,          \* send_task calls started
    delivered,         \* what task_callback has been called with, in order
    next_uuid,         \* uuid.uuid4() results handed out so far
    ad_heard,          \* what the streaming client has yielded in this call
    ad_returned,       \* how RemoteAgentConnections.send_task ended
    host,              \* how HostAgent.send_task ended, and what it set
    ad_conn,           \* the connection: whether its card advertises streaming,
                       \* and the task_callback the host agent was built with
    \* ---- A2AClient.send_task_streaming (common/client/client.py)
    wire,              \* the events the server has sent on the connection
    wire_open,         \* the server has not closed the connection
    yielded,           \* what the generator has yielded to its consumer
    gen_state,         \* "running", "ended" or the exception raised
    \* ---- protocol types (common/types.py, common/server/utils.py)
    built,             \* the last model construction: what was passed, what came out
    \* ---- unary client operations (common/client/client.py)
    cl_last,           \* the last operation: what the transport did, how it ended
    \* ---- the sender as its callers see it (common/utils/push_notification_auth.py)
    generated,         \* the key ids generate_jwk has produced, in order
    jwks_served,       \* what handle_jwks_endpoint last returned
    push_last,         \* the last send_push_notification call and how it ended
    url_checks,        \* verify_push_notification_url calls made so far
    url_last           \* the last verify_push_notification_url call and its result

authVars == <<now, public_keys, private_key_jwk, jwks_client,
              request, verdict, seen_expired, from_sender>>

cacheDataVars == <<cache_now, cache_last, written, cache_op>>

cacheVars == <<cls_instance, cls_initialized, cls_lock, instances, pc, self_, calls,
               constructed, init_at_start, cacheDataVars>>

mergeVars == <<merge_target, merge_source, merge_before, merge_done>>

adapterVars == <<ad_pc, ad_request, ad_sends, delivered, next_uuid, ad_heard,
                 ad_returned, host, ad_conn>>

streamVars == <<wire, wire_open, yielded, gen_state>>

typesVars == <<built>>

clientVars == <<cl_last>>

senderVars == <<generated, jwks_served, push_last, url_checks, url_last>>

vars == <<authVars, cacheVars, mergeVars, adapterVars, streamVars, typesVars,
          clientVars, senderVars>>

\* What the actions of one subsystem leave alone.
NotAuth == <<cacheVars, mergeVars, adapterVars, streamVars, typesVars, clientVars,
              senderVars>>
NotCache == <<authVars, mergeVars, adapterVars, streamVars, typesVars, clientVars,
               senderVars>>
NotMerge == <<authVars, cacheVars, adapterVars, streamVars, typesVars, clientVars,
               senderVars>>
NotAdapter == <<authVars, cacheVars, mergeVars, streamVars, typesVars, clientVars,
                 senderVars>>
NotStream == <<authVars, cacheVars, mergeVars, adapterVars, typesVars, clientVars,
                senderVars>>
NotTypes == <<authVars, cacheVars, mergeVars, adapterVars, streamVars, clientVars,
              senderVars>>
NotClient == <<authVars, cacheVars, mergeVars, adapterVars, streamVars, typesVars,
               senderVars>>
NotSender == <<cacheVars, mergeVars, adapterVars, streamVars, typesVars, clientVars>>

-----------------------------------------------------------------------------
(* Bounds of the model *)

TicksPerSecond == 2
ClockSpan == 1
MaxKeys == 1
NumThreads == 2
MaxCalls == 2
MaxGiven == 2
MaxSends == 2
MaxEvents == 2
MaxWire == 3
MaxTtl == 1
MaxCacheTime == 2
MaxGenerated == 2
MaxUrlChecks == 2

(* Program constants *)

FreshnessWindow == 300

-----------------------------------------------------------------------------
(* Push-notification auth: data *)

AUTH_HEADER_PREFIX == <<"B", "e", "a", "r", "e", "r", " ">>

\* dict[str, Any] as Python keeps it: key/value pairs in insertion order.
BodyA == << <<"id", "t1">>, <<"state", "done">> >>
BodyB == << <<"state", "done">>, <<"id", "t1">> >>
Bodies == {BodyA, BodyB}

RECURSIVE DumpItems(_, _, _)
DumpItems(d, item_sep, key_sep) ==
    IF d = <<>> THEN <<>>
    ELSE <<d[1][1], key_sep, d[1][2]>>
         \o (IF Len(d) > 1 THEN <<item_sep>> ELSE <<>>)
         \o DumpItems(Tail(d), item_sep, key_sep)

\* json.dumps(data, separators=(item_sep, key_sep)): the text, one element per
\* lexical token, keys in insertion order.
json_dumps(d, item_sep, key_sep) ==
    <<"{">> \o DumpItems(d, item_sep, key_sep) \o <<"}">>

\* dict assignment d[k] = v: an existing key keeps its position.
DictSet(d, k, v) ==
    IF \E i \in 1..Len(d) : d[i][1] = k
    THEN [i \in 1..Len(d) |-> IF d[i][1] = k THEN <<k, v>> ELSE d[i]]
    ELSE Append(d, <<k, v>>)

RECURSIVE LoadItems(_, _)
LoadItems(toks, acc) ==
    IF Len(toks) < 3 THEN acc
    ELSE LoadItems(SubSeq(toks, 5, Len(toks)), DictSet(acc, toks[1], toks[3]))

\* json.loads(text): separators are skipped whatever their spacing.
json_loads(text) ==
    LoadItems(SubSeq(text, 2, Len(text) - 1), <<>>)

\* hashlib.sha256(...).hexdigest(), taken collision-free.
sha256_hexdigest(text) == <<"sha256", text>>

\* PushNotificationAuth._calculate_request_body_sha256
calculate_request_body_sha256(data) ==
    sha256_hexdigest(json_dumps(data, ",", ":"))

\* httpx's json=data encoding of the request body.
HttpxJsonBody(data) == json_dumps(data, ", ", ": ")

Digests == {calculate_request_body_sha256(b) : b \in Bodies}

\* JWT payloads: a dict that may lack either claim.
NoClaims == [c \in {} |-> 0]
IatValues == 0..ClockSpan
Payloads ==
    {NoClaims}
    \cup {[iat |-> i] : i \in IatValues}
    \cup {[request_body_sha256 |-> h] : h \in Digests}
    \cup {[iat |-> i, request_body_sha256 |-> h] : i \in IatValues, h \in Digests}

\* A JWT: header alg and kid, the key whose private half signed it (0: no
\* published key), and the payload.
Algorithms == {"RS256", "HS256", "none"}
\* The empty string where a token is expected.
NoToken == [alg |-> "", kid |-> 0, sig |-> 0, payload |-> NoClaims]

\* The Authorization header: the characters before the credentials, then the
\* serialized token (base64url text, so never a space).
Schemes == { <<>>,
             <<"b", "e", "a", "r", "e", "r", " ">>,
             AUTH_HEADER_PREFIX }

NoHeader == [present |-> FALSE, scheme |-> <<>>, credentials |-> NoToken]

ClockValues ==
    {t \in 0..((FreshnessWindow + ClockSpan) * TicksPerSecond + 1) :
        \/ t <= ClockSpan * TicksPerSecond
        \/ t >= FreshnessWindow * TicksPerSecond - 1}

Range(s) == {s[i] : i \in 1..Len(s)}

-----------------------------------------------------------------------------
(* Push-notification auth: sender *)

\* time.time() is now / TicksPerSecond; int(time.time()) truncates it.
IntTime(t) == t \div TicksPerSecond

\* Mutant: the digest is taken over the body as it is posted, not over the
\* canonical serialization.
generate_jwt_wire_digest(data, t, key) ==
    [alg |-> "RS256", kid |-> key, sig |-> key,
     payload |-> [iat |-> IntTime(t),
                  request_body_sha256 |-> sha256_hexdigest(HttpxJsonBody(data))]]

\* PushNotificationSenderAuth._generate_jwt: claims iat and request_body_sha256,
\* header kid of the signing key, RS256, signed with the private key.
generate_jwt(data, t, key) ==
    [alg |-> "RS256", kid |-> key, sig |-> key,
     payload |-> [iat |-> IntTime(t),
                  request_body_sha256 |-> calculate_request_body_sha256(data)]]

\* The request send_push_notification posts: Authorization: Bearer <token>, json=data.
PushRequest(data, t, key) ==
    [auth_header |-> [present |-> TRUE, scheme |-> AUTH_HEADER_PREFIX,
                      credentials |-> generate_jwt(data, t, key)],
     body |-> HttpxJsonBody(data)]

-----------------------------------------------------------------------------
(* Push-notification auth: receiver *)

Return(v, did) == [ret |-> v, exc |-> "", msg |-> "", did |-> did]
Raise(e, m, did) == [ret |-> "raise", exc |-> e, msg |-> m, did |-> did]
NoVerdict == [ret |-> "none", exc |-> "", msg |-> "", did |-> {}]

StartsWith(h, prefix) ==
    /\ Len(h.scheme) >= Len(prefix)
    /\ SubSeq(h.scheme, 1, Len(prefix)) = prefix

\* Mutant: any non-empty header is taken, whatever its scheme.
HeaderPresent(h) == h.present /\ h.scheme # <<>>

\* not (not auth_header or not auth_header.startswith(AUTH_HEADER_PREFIX))
HeaderAccepted(h) ==
    /\ h.present
    /\ ~(h.scheme = <<>> /\ h.credentials = NoToken)
    /\ StartsWith(h, AUTH_HEADER_PREFIX)

\* auth_header[len(AUTH_HEADER_PREFIX):] is a serialized JWT only if nothing but
\* the token follows the prefix.
TokenWellFormed(h) ==
    /\ SubSeq(h.scheme, Len(AUTH_HEADER_PREFIX) + 1, Len(h.scheme)) = <<>>
    /\ h.credentials # NoToken

\* Mutant: the algorithm the token header names is trusted.
HeaderAlgorithms == Algorithms

\* algorithms=["RS256"]
AcceptedAlgorithms == {"RS256"}

\* RS256 verifies only against the key that signed; an HS256 token keyed with the
\* published key, or an unsigned one, can be made by anyone.
SignatureValid(token, key) ==
    IF token.alg = "RS256" THEN token.sig = key ELSE TRUE

\* Mutant: the digests are not compared.
BodyHashNotCompared(actual, claimed) == TRUE

\* actual_body_sha256 != decode_token["request_body_sha256"], negated
BodyHashMatches(actual, claimed) == actual = claimed

\* Mutant: a token is expired from the 300th second on.
TokenExpiredAtWindow(t, iat) ==
    t - iat * TicksPerSecond >= FreshnessWindow * TicksPerSecond

\* time.time() - decode_token["iat"] > 60 * 5
TokenExpired(t, iat) ==
    t - iat * TicksPerSecond > FreshnessWindow * TicksPerSecond

\* Mutant: a body mismatch is raised with the expiry message.
InvalidRequestBodyAsExpired(did) == Raise("ValueError", "Token expired", did)

InvalidRequestBody(did) == Raise("ValueError", "Invalid request body", did)
TokenExpiredError(did) == Raise("ValueError", "Token expired", did)

\* jwt.decode(token, key, algorithms=[...], options={"require": [...]})
jwt_decode(token, key, t, checks_iat, did) ==
    IF token.alg \notin AcceptedAlgorithms
    THEN Raise("InvalidAlgorithmError", "The specified alg value is not allowed", did)
    ELSE IF ~SignatureValid(token, key)
    THEN Raise("InvalidSignatureError", "Signature verification failed", did)
    ELSE IF "iat" \notin DOMAIN token.payload
    THEN Raise("MissingRequiredClaimError", "iat", did)
    ELSE IF "request_body_sha256" \notin DOMAIN token.payload
    THEN Raise("MissingRequiredClaimError", "request_body_sha256", did)
    ELSE IF checks_iat /\ token.payload.iat * TicksPerSecond > t
    THEN Raise("ImmatureSignatureError", "The token is not yet valid (iat)", did)
    ELSE Return("decoded", did)

\* PushNotificationReceiverAuth.verify_push_notification
verify_push_notification(req, t, client, keys, checks_iat) ==
    LET h == req.auth_header
        token == h.credentials
    IN
    IF ~HeaderAccepted(h) THEN Return("False", {})
    ELSE IF client # "PyJWKClient"
    THEN Raise("AttributeError", "get_signing_key_from_jwt", {})
    ELSE IF ~TokenWellFormed(h)
    THEN Raise("DecodeError", "Not enough segments", {"key_lookup"})
    ELSE IF token.kid \notin Range(keys)
    THEN Raise("PyJWKClientError", "Unable to find a signing key", {"key_lookup"})
    ELSE
    LET decoded == jwt_decode(token, token.kid, t, checks_iat, {"key_lookup", "decode"})
    IN
    IF decoded.ret # "decoded" THEN decoded
    ELSE IF ~BodyHashMatches(calculate_request_body_sha256(json_loads(req.body)),
                             token.payload.request_body_sha256)
    THEN InvalidRequestBody({"key_lookup", "decode", "body_read"})
    ELSE IF TokenExpired(t, token.payload.iat)
    THEN TokenExpiredError({"key_lookup", "decode", "body_read", "clock_read"})
    ELSE Return("True", {"key_lookup", "decode", "body_read", "clock_read"})

-----------------------------------------------------------------------------
(* Push-notification auth: actions *)

InitAuth ==
    /\ now = 0
    /\ public_keys = <<>>
    /\ private_key_jwk = 0
    /\ jwks_client = "unset"
    /\ request = [auth_header |-> NoHeader, body |-> HttpxJsonBody(BodyA)]
    /\ verdict = NoVerdict
    /\ seen_expired = FALSE
    /\ from_sender = FALSE

\* PushNotificationSenderAuth.generate_jwk: a key with a fresh kid; its public
\* half is appended, its private half becomes the signing key.
generate_jwk ==
    /\ Len(public_keys) < MaxKeys
    /\ public_keys' = Append(public_keys, Len(public_keys) + 1)
    /\ private_key_jwk' = Len(public_keys) + 1
    /\ verdict' = NoVerdict
    /\ UNCHANGED <<now, jwks_client, request, seen_expired, from_sender>>
    /\ UNCHANGED NotAuth

\* PushNotificationReceiverAuth.load_jwks
load_jwks ==
    /\ jwks_client' = "PyJWKClient"
    /\ verdict' = NoVerdict
    /\ UNCHANGED <<now, public_keys, private_key_jwk, request, seen_expired,
                   from_sender>>
    /\ UNCHANGED NotAuth

\* PushNotificationSenderAuth.send_push_notification: the request as it reaches
\* the receiver.
send_push_notification ==
    /\ private_key_jwk # 0
    /\ \E data \in Bodies : request' = PushRequest(data, now, private_key_jwk)
    /\ verdict' = NoVerdict
    /\ seen_expired' = FALSE
    /\ from_sender' = TRUE
    /\ UNCHANGED <<now, public_keys, private_key_jwk, jwks_client>>
    /\ UNCHANGED NotAuth

\* Any other sender of requests to the receiver's endpoint: a header is set or
\* removed.  A token attached here is one that some key holder signed earlier.
SetHeader ==
    /\ \E h \in {NoHeader, [present |-> TRUE, scheme |-> <<>>, credentials |-> NoToken]}
                \cup [present : {TRUE}, scheme : Schemes \ {<<>>},
                      credentials : {request.auth_header.credentials}] :
          /\ h # request.auth_header
          /\ request' = [request EXCEPT !.auth_header = h]
    /\ verdict' = NoVerdict
    /\ seen_expired' = FALSE
    /\ from_sender' = FALSE
    /\ UNCHANGED <<now, public_keys, private_key_jwk, jwks_client>>
    /\ UNCHANGED NotAuth

\* Two payloads that differ in one claim.
ClaimOf(p, c) == IF c \in DOMAIN p THEN <<p[c]>> ELSE <<>>
OneClaimApart(p, q) ==
    Cardinality({c \in DOMAIN p \cup DOMAIN q : ClaimOf(p, c) # ClaimOf(q, c)}) = 1

\* The token of the header is replaced by one differing in a field or a claim: the holder of
\* a published key may sign any claims, anyone else signs with an unpublished key.
SetToken ==
    /\ request.auth_header.scheme # <<>>
    /\ LET tok == request.auth_header.credentials
           base == IF tok = NoToken
                   THEN [alg |-> "RS256", kid |-> 0, sig |-> 0, payload |-> NoClaims]
                   ELSE tok
       IN \E new \in {NoToken}
                     \cup {[base EXCEPT !.alg = a] : a \in Algorithms}
                     \cup {[base EXCEPT !.kid = k] : k \in 0..MaxKeys}
                     \cup {[base EXCEPT !.sig = k] : k \in Range(public_keys) \cup {0}}
                     \cup {[base EXCEPT !.payload = p] :
                             p \in {q \in Payloads : OneClaimApart(q, base.payload)}} :
            /\ new # tok
            /\ request' = [request EXCEPT !.auth_header.credentials = new]
    /\ verdict' = NoVerdict
    /\ seen_expired' = FALSE
    /\ from_sender' = FALSE
    /\ UNCHANGED <<now, public_keys, private_key_jwk, jwks_client>>
    /\ UNCHANGED NotAuth

\* The body of the presented request is replaced on the way.
ReplaceBody ==
    /\ \E b \in Bodies :
          /\ HttpxJsonBody(b) # request.body
          /\ request' = [request EXCEPT !.body = HttpxJsonBody(b)]
    /\ verdict' = NoVerdict
    /\ seen_expired' = FALSE
    /\ from_sender' = FALSE
    /\ UNCHANGED <<now, public_keys, private_key_jwk, jwks_client>>
    /\ UNCHANGED NotAuth

\* The receiver's handler runs verify_push_notification on the request.  Whether
\* jwt.decode rejects an iat in the future depends on the PyJWT release installed.
Verify ==
    /\ \E checks_iat \in BOOLEAN :
          verdict' = verify_push_notification(request, now, jwks_client, public_keys,
                                              checks_iat)
    /\ seen_expired' = (seen_expired \/ verdict'.msg = "Token expired")
    /\ UNCHANGED <<now, public_keys, private_key_jwk, jwks_client, request,
                   from_sender>>
    /\ UNCHANGED NotAuth

\* Time passes: the clock moves on to the next of its sampled values.
Tick ==
    /\ \E t \in ClockValues :
          /\ t > now
          /\ \A u \in ClockValues : u > now => t <= u
          /\ now' = t
    /\ verdict' = NoVerdict
    /\ UNCHANGED <<public_keys, private_key_jwk, jwks_client, request,
                   seen_expired, from_sender>>
    /\ UNCHANGED NotAuth

NextAuth ==
    \/ generate_jwk
    \/ load_jwks
    \/ send_push_notification
    \/ SetHeader
    \/ SetToken
    \/ ReplaceBody
    \/ Verify
    \/ Tick

-----------------------------------------------------------------------------
(* Process-wide cache: InMemoryCache() *)

Threads == 1..NumThreads

\* d[k] = v on a dict
DictPut(d, k, v) ==
    [x \in DOMAIN d \cup {k} |-> IF x = k THEN v ELSE d[x]]

\* del d[k]
DictDel(d, k) == [x \in DOMAIN d \ {k} |-> d[x]]

\* The keys, values, ttl arguments and defaults callers pass to the cache.
CacheKeys == {"k1", "k2"}

CacheValues == {"v1", "v2"}

NoTtl == [given |-> FALSE, seconds |-> 0]

TtlArgs == {NoTtl} \cup [given : {TRUE}, seconds : 0..MaxTtl]

Defaults == {"None", "fallback"}

\* What callers know of a key they have not set, or have deleted or cleared.
NotWritten ==
    [set |-> FALSE, value |-> "", has_expiry |-> FALSE, expiry |-> 0,
     replaced_expiry |-> FALSE, old_expiry |-> 0]

\* An empty dict.
NoEntries == [k \in {} |-> 0]

\* A new object: it has no attribute of its own until __init__ creates them.
NewInstance ==
    [has_initialized |-> FALSE, initialized |-> FALSE,
     cache_data |-> NoEntries, ttl |-> NoEntries, data_lock |-> 0]

\* The thread is in no cache method.
NoCacheOp ==
    [name |-> "none", step |-> "idle", obj |-> 0, key |-> "", value |-> "",
     ttl |-> [given |-> FALSE, seconds |-> 0]]

\* No cache method has been called yet.
NoCacheCall ==
    [op |-> "none", obj |-> 0, key |-> "", ret |-> "", expected |-> "",
     at |-> 0]

InitCache ==
    /\ cls_instance = 0
    /\ cls_initialized = FALSE
    /\ cls_lock = 0
    /\ instances = <<>>
    /\ pc = [t \in Threads |-> "idle"]
    /\ self_ = [t \in Threads |-> 0]
    /\ calls = [t \in Threads |-> 0]
    /\ constructed = {}
    /\ init_at_start = [t \in Threads |-> 0]
    /\ cache_now = 0
    /\ cache_last = NoCacheCall
    /\ written = [k \in CacheKeys |-> NotWritten]
    /\ cache_op = [t \in Threads |-> NoCacheOp]

\* self._initialized: the instance attribute once __init__ has set it, else the
\* class attribute.
Initialized(obj) ==
    IF instances[obj].has_initialized THEN instances[obj].initialized
    ELSE cls_initialized

\* cls._instance when it names an instance __init__ has completed on, else 0.
InitializedInstance ==
    IF cls_instance # 0 /\ instances[cls_instance].initialized THEN cls_instance ELSE 0

\* The guard of the locked section of __new__: if not cls._initialized
NewMustCreate == ~cls_initialized

Goto(t, label) == pc' = [pc EXCEPT ![t] = label]

\* A thread calls InMemoryCache().
Construct(t) ==
    /\ pc[t] = "idle"
    /\ calls[t] < MaxCalls
    /\ calls' = [calls EXCEPT ![t] = @ + 1]
    /\ Goto(t, "new_check")
    /\ init_at_start' = [init_at_start EXCEPT ![t] = InitializedInstance]
    /\ UNCHANGED <<cls_instance, cls_initialized, cls_lock, instances, self_,
                   constructed>>
    /\ UNCHANGED cacheDataVars
    /\ UNCHANGED NotCache

\* __new__: if cls._instance is None
NewCheck(t) ==
    /\ pc[t] = "new_check"
    /\ Goto(t, IF cls_instance = 0 THEN "new_acquire" ELSE "new_return")
    /\ UNCHANGED <<cls_instance, cls_initialized, cls_lock, instances, self_, calls,
                   constructed>>
    /\ UNCHANGED <<init_at_start, cacheDataVars>>
    /\ UNCHANGED NotCache

\* __new__: with cls._lock
NewAcquire(t) ==
    /\ pc[t] = "new_acquire"
    /\ cls_lock = 0
    /\ cls_lock' = t
    /\ Goto(t, "new_locked")
    /\ UNCHANGED <<cls_instance, cls_initialized, instances, self_, calls, constructed>>
    /\ UNCHANGED <<init_at_start, cacheDataVars>>
    /\ UNCHANGED NotCache

\* __new__, holding the lock: if not cls._initialized:
\*     cls._instance = super().__new__(cls)
NewLocked(t) ==
    /\ pc[t] = "new_locked"
    /\ IF NewMustCreate
       THEN /\ instances' = Append(instances, NewInstance)
            /\ cls_instance' = Len(instances) + 1
       ELSE UNCHANGED <<instances, cls_instance>>
    /\ Goto(t, "new_release")
    /\ UNCHANGED <<cls_initialized, cls_lock, self_, calls, constructed>>
    /\ UNCHANGED <<init_at_start, cacheDataVars>>
    /\ UNCHANGED NotCache

\* __new__: the with block is left
NewRelease(t) ==
    /\ pc[t] = "new_release"
    /\ cls_lock' = 0
    /\ Goto(t, "new_return")
    /\ UNCHANGED <<cls_instance, cls_initialized, instances, self_, calls, constructed>>
    /\ UNCHANGED <<init_at_start, cacheDataVars>>
    /\ UNCHANGED NotCache

\* __new__: return cls._instance
NewReturn(t) ==
    /\ pc[t] = "new_return"
    /\ self_' = [self_ EXCEPT ![t] = cls_instance]
    /\ Goto(t, "init_check")
    /\ UNCHANGED <<cls_instance, cls_initialized, cls_lock, instances, calls,
                   constructed>>
    /\ UNCHANGED <<init_at_start, cacheDataVars>>
    /\ UNCHANGED NotCache

\* __init__: if not self._initialized; when it is, the constructor call is over.
InitCheck(t) ==
    /\ pc[t] = "init_check"
    /\ IF ~Initialized(self_[t])
       THEN /\ Goto(t, "init_acquire")
            /\ UNCHANGED constructed
       ELSE /\ Goto(t, "idle")
            /\ constructed' = constructed \cup {self_[t]}
    /\ UNCHANGED <<cls_instance, cls_initialized, cls_lock, instances, self_, calls>>
    /\ UNCHANGED <<init_at_start, cacheDataVars>>
    /\ UNCHANGED NotCache

\* __init__: with self._lock
InitAcquire(t) ==
    /\ pc[t] = "init_acquire"
    /\ cls_lock = 0
    /\ cls_lock' = t
    /\ Goto(t, "init_locked")
    /\ UNCHANGED <<cls_instance, cls_initialized, instances, self_, calls, constructed>>
    /\ UNCHANGED <<init_at_start, cacheDataVars>>
    /\ UNCHANGED NotCache

\* __init__, holding the lock: if not self._initialized: the maps and the data
\* lock are created and self._initialized = True is set on the instance.
InitLocked(t) ==
    /\ pc[t] = "init_locked"
    /\ IF ~Initialized(self_[t])
       THEN instances' = [instances EXCEPT ![self_[t]] =
                             [has_initialized |-> TRUE, initialized |-> TRUE,
                              cache_data |-> NoEntries, ttl |-> NoEntries,
                              data_lock |-> 0]]
       ELSE UNCHANGED instances
    /\ Goto(t, "init_release")
    /\ UNCHANGED <<cls_instance, cls_initialized, cls_lock, self_, calls, constructed>>
    /\ UNCHANGED <<init_at_start, cacheDataVars>>
    /\ UNCHANGED NotCache

\* __init__: the with block is left and InMemoryCache() returns self.
InitRelease(t) ==
    /\ pc[t] = "init_release"
    /\ cls_lock' = 0
    /\ constructed' = constructed \cup {self_[t]}
    /\ Goto(t, "idle")
    /\ UNCHANGED <<cls_instance, cls_initialized, instances, self_, calls>>
    /\ UNCHANGED <<init_at_start, cacheDataVars>>
    /\ UNCHANGED NotCache

NextCache ==
    \E t \in Threads :
        \/ Construct(t)
        \/ NewCheck(t)
        \/ NewAcquire(t)
        \/ NewLocked(t)
        \/ NewRelease(t)
        \/ NewReturn(t)
        \/ InitCheck(t)
        \/ InitAcquire(t)
        \/ InitLocked(t)
        \/ InitRelease(t)

-----------------------------------------------------------------------------
(* Process-wide cache: set, get, delete, clear *)

\* Mutant: an entry counts as expired at its expiry instant already.
ExpiredAtInstant(at, expiry) == at >= expiry

\* get: time.time() > self._ttl[key]
Expired(at, expiry) == at > expiry

\* Mutant: set without a ttl leaves the expiry index alone.
KeepTtl(ttl_map, key, ttl, at) ==
    IF ttl.given THEN DictPut(ttl_map, key, at + ttl.seconds) ELSE ttl_map

\* set: the expiry index after the call.
SetTtl(ttl_map, key, ttl, at) ==
    IF ttl.given THEN DictPut(ttl_map, key, at + ttl.seconds)
    ELSE IF key \in DOMAIN ttl_map THEN DictDel(ttl_map, key) ELSE ttl_map

\* get: whether the call evicts the entry.
Evicts(obj, key, at) ==
    /\ key \in DOMAIN instances[obj].ttl
    /\ Expired(at, instances[obj].ttl[key])

\* dict.get(key, default)
DictGet(d, key, default) == IF key \in DOMAIN d THEN d[key] ELSE default

CacheCall(op, obj, key, ret, default, at) ==
    [op |-> op, obj |-> obj, key |-> key, ret |-> ret, expected |-> default,
     at |-> at]

\* The instances callers hold: InMemoryCache() has returned them.
Usable(obj) == obj \in constructed

\* InMemoryCache() called with no other thread inside the constructor: __new__
\* followed by __init__.
ConstructAlone ==
    /\ \A t \in Threads : pc[t] = "idle"
    /\ cls_lock = 0
    /\ LET created == cls_instance = 0 /\ NewMustCreate
           made == IF created THEN Append(instances, NewInstance) ELSE instances
           obj == IF created THEN Len(instances) + 1 ELSE cls_instance
           fresh == IF made[obj].has_initialized THEN ~made[obj].initialized
                    ELSE ~cls_initialized
       IN  /\ cls_instance' = obj
           /\ instances' = IF fresh
                            THEN [made EXCEPT ![obj] =
                                     [has_initialized |-> TRUE, initialized |-> TRUE,
                                      cache_data |-> NoEntries, ttl |-> NoEntries,
                                      data_lock |-> 0]]
                            ELSE made
           /\ constructed' = constructed \cup {obj}
           /\ cache_last' = CacheCall("construct", obj, "", "", "", cache_now)
    /\ UNCHANGED <<cls_initialized, cls_lock, pc, self_, calls, init_at_start,
                   cache_now, written, cache_op>>
    /\ UNCHANGED NotCache

\* set(key, value, ttl), the whole body under self._data_lock.
CacheSet(obj, key, value, ttl) ==
    /\ Usable(obj)
    /\ instances' = [instances EXCEPT ![obj] =
                         [@ EXCEPT !.cache_data = DictPut(@, key, value),
                                   !.ttl = SetTtl(@, key, ttl, cache_now)]]
    /\ cache_last' = CacheCall("set", obj, key, "", "", cache_now)
    /\ written' = [written EXCEPT ![key] =
                       [set |-> TRUE, value |-> value, has_expiry |-> ttl.given,
                        expiry |-> IF ttl.given THEN cache_now + ttl.seconds ELSE 0,
                        replaced_expiry |-> ~ttl.given /\ written[key].has_expiry,
                        old_expiry |-> IF ~ttl.given /\ written[key].has_expiry
                                       THEN written[key].expiry ELSE 0]]
    /\ UNCHANGED <<cls_instance, cls_initialized, cls_lock, pc, self_, calls,
                   constructed, init_at_start, cache_now, cache_op>>
    /\ UNCHANGED NotCache

\* get(key, default), the whole body under self._data_lock.
CacheGet(obj, key, default) ==
    /\ Usable(obj)
    /\ IF Evicts(obj, key, cache_now)
       THEN /\ instances' = [instances EXCEPT ![obj] =
                                 [@ EXCEPT !.cache_data = DictDel(@, key),
                                           !.ttl = DictDel(@, key)]]
            /\ cache_last' = CacheCall("get", obj, key, default, default, cache_now)
       ELSE /\ UNCHANGED instances
            /\ cache_last' =
                   CacheCall("get", obj, key,
                             DictGet(instances[obj].cache_data, key, default),
                             default, cache_now)
    /\ UNCHANGED <<cls_instance, cls_initialized, cls_lock, pc, self_, calls,
                   constructed, init_at_start, cache_now, written, cache_op>>
    /\ UNCHANGED NotCache

\* delete(key), the whole body under self._data_lock.
CacheDelete(obj, key) ==
    /\ Usable(obj)
    /\ IF key \in DOMAIN instances[obj].cache_data
       THEN /\ instances' = [instances EXCEPT ![obj] =
                                 [@ EXCEPT !.cache_data = DictDel(@, key),
                                           !.ttl = IF key \in DOMAIN @
                                                   THEN DictDel(@, key) ELSE @]]
            /\ cache_last' = CacheCall("delete", obj, key, "True", "", cache_now)
       ELSE /\ UNCHANGED instances
            /\ cache_last' = CacheCall("delete", obj, key, "False", "", cache_now)
    /\ written' = [written EXCEPT ![key] = NotWritten]
    /\ UNCHANGED <<cls_instance, cls_initialized, cls_lock, pc, self_, calls,
                   constructed, init_at_start, cache_now, cache_op>>
    /\ UNCHANGED NotCache

\* clear(), the whole body under self._data_lock.
CacheClear(obj) ==
    /\ Usable(obj)
    /\ instances' = [instances EXCEPT ![obj] =
                         [@ EXCEPT !.cache_data = NoEntries, !.ttl = NoEntries]]
    /\ cache_last' = CacheCall("clear", obj, "", "True", "", cache_now)
    /\ written' = [k \in CacheKeys |-> NotWritten]
    /\ UNCHANGED <<cls_instance, cls_initialized, cls_lock, pc, self_, calls,
                   constructed, init_at_start, cache_now, cache_op>>
    /\ UNCHANGED NotCache

\* time.time() moves on.
CacheTick ==
    /\ cache_now < MaxCacheTime
    /\ cache_now' = cache_now + 1
    /\ UNCHANGED <<cls_instance, cls_initialized, cls_lock, instances, pc, self_,
                   calls, constructed, init_at_start, cache_last, written,
                   cache_op>>
    /\ UNCHANGED NotCache

NextCacheData ==
    \/ ConstructAlone
    \/ \E obj \in constructed, key \in CacheKeys, value \in CacheValues, ttl \in TtlArgs :
          CacheSet(obj, key, value, ttl)
    \/ \E obj \in constructed, key \in CacheKeys, default \in Defaults :
          CacheGet(obj, key, default)
    \/ \E obj \in constructed, key \in CacheKeys : CacheDelete(obj, key)
    \/ \E obj \in constructed : CacheClear(obj)
    \/ CacheTick

-----------------------------------------------------------------------------
(* Process-wide cache: set, get, delete, clear called from several threads *)

\* Mutant: the data lock never blocks.
NeverHeld(inst) == TRUE

\* with self._data_lock: entered when no thread holds the lock.
LockFree(inst) == inst.data_lock = 0

CacheMethods == {"set", "get", "delete", "clear"}

\* The arguments a method is called with.
CacheArgs(name) ==
    IF name = "set"
    THEN [key : CacheKeys, value : CacheValues, ttl : TtlArgs]
    ELSE IF name = "clear"
    THEN [key : {""}, value : {""}, ttl : {NoTtl}]
    ELSE [key : CacheKeys, value : {""}, ttl : {NoTtl}]

\* The first statement inside the with block of each method.
FirstStep(name) ==
    CASE name = "set" -> "store"
      [] name = "get" -> "test"
      [] name = "delete" -> "test"
      [] name = "clear" -> "values"

\* One statement of a method body: the instance after it and the statement
\* that follows.
Statement(op, at) ==
    LET inst == instances[op.obj]
        to(after, step) == [inst |-> after, step |-> step]
    IN  CASE op.name = "set" /\ op.step = "store" ->
                 to([inst EXCEPT !.cache_data = DictPut(@, op.key, op.value)],
                    "index")
          [] op.name = "set" /\ op.step = "index" ->
                 to([inst EXCEPT !.ttl = SetTtl(@, op.key, op.ttl, at)], "exit")
          [] op.name = "get" /\ op.step = "test" ->
                 to(inst, IF Evicts(op.obj, op.key, at) THEN "del_value"
                          ELSE "read")
          [] op.name = "get" /\ op.step = "del_value" ->
                 to([inst EXCEPT !.cache_data = DictDel(@, op.key)], "del_index")
          [] op.name = "get" /\ op.step = "del_index" ->
                 to([inst EXCEPT !.ttl = DictDel(@, op.key)], "exit")
          [] op.name = "get" /\ op.step = "read" -> to(inst, "exit")
          [] op.name = "delete" /\ op.step = "test" ->
                 to(inst, IF op.key \in DOMAIN inst.cache_data THEN "del_value"
                          ELSE "exit")
          [] op.name = "delete" /\ op.step = "del_value" ->
                 to([inst EXCEPT !.cache_data = DictDel(@, op.key)], "del_index")
          [] op.name = "delete" /\ op.step = "del_index" ->
                 to([inst EXCEPT !.ttl = IF op.key \in DOMAIN @
                                         THEN DictDel(@, op.key) ELSE @], "exit")
          [] op.name = "clear" /\ op.step = "values" ->
                 to([inst EXCEPT !.cache_data = NoEntries], "index")
          [] op.name = "clear" /\ op.step = "index" ->
                 to([inst EXCEPT !.ttl = NoEntries], "exit")

\* The thread is between the first statement of a body and leaving the with
\* block.
InBody(t) == cache_op[t].step \notin {"idle"}

\* A thread calls a method and enters its with block.
CacheEnter(t, name, obj, args) ==
    /\ cache_op[t].step = "idle"
    /\ Usable(obj)
    /\ LockFree(instances[obj])
    /\ instances' = [instances EXCEPT ![obj].data_lock = t]
    /\ cache_op' = [cache_op EXCEPT ![t] =
                        [name |-> name, step |-> FirstStep(name), obj |-> obj,
                         key |-> args.key, value |-> args.value,
                         ttl |-> args.ttl]]
    /\ UNCHANGED <<cls_instance, cls_initialized, cls_lock, pc, self_, calls,
                   constructed, init_at_start, cache_now, cache_last, written>>
    /\ UNCHANGED NotCache

\* The thread executes the next statement of the body.
CacheStep(t) ==
    /\ InBody(t)
    /\ cache_op[t].step # "exit"
    /\ LET done == Statement(cache_op[t], cache_now)
       IN  /\ instances' = [instances EXCEPT ![cache_op[t].obj] = done.inst]
           /\ cache_op' = [cache_op EXCEPT ![t].step = done.step]
    /\ UNCHANGED <<cls_instance, cls_initialized, cls_lock, pc, self_, calls,
                   constructed, init_at_start, cache_now, cache_last, written>>
    /\ UNCHANGED NotCache

\* The thread leaves the with block and the method returns.
CacheExit(t) ==
    /\ cache_op[t].step = "exit"
    /\ instances' = [instances EXCEPT ![cache_op[t].obj].data_lock = 0]
    /\ cache_op' = [cache_op EXCEPT ![t] = NoCacheOp]
    /\ UNCHANGED <<cls_instance, cls_initialized, cls_lock, pc, self_, calls,
                   constructed, init_at_start, cache_now, cache_last, written>>
    /\ UNCHANGED NotCache

NextCacheShared ==
    \/ ConstructAlone
    \/ \E t \in Threads, name \in CacheMethods, obj \in constructed :
          \E args \in CacheArgs(name) : CacheEnter(t, name, obj, args)
    \/ \E t \in Threads : CacheStep(t)
    \/ \E t \in Threads : CacheExit(t)
    \/ CacheTick

-----------------------------------------------------------------------------
(* merge_metadata *)

\* Metadata values: identifiers given from outside and uuid.uuid4() results.
Given(n) == <<"given", n>>
Uuid4(n) == <<"uuid4", n>>
GivenIds == {Given(n) : n \in 1..MaxGiven}

MetaKeys == {"conversation_id", "message_id"}
EmptyDict == [k \in {} |-> Given(0)]
Dicts == UNION {[D -> GivenIds] : D \in SUBSET MetaKeys}

\* An object as merge_metadata sees it: whether it has a meta_data attribute,
\* and that attribute: None or a dict.
NoMetaAttr == [has_meta |-> FALSE, is_none |-> TRUE, meta_data |-> EmptyDict]
MetaNone == [has_meta |-> TRUE, is_none |-> TRUE, meta_data |-> EmptyDict]
MetaDict(d) == [has_meta |-> TRUE, is_none |-> FALSE, meta_data |-> d]
MetaObjects == {NoMetaAttr, MetaNone} \cup {MetaDict(d) : d \in Dicts}

\* Python truth of obj.meta_data: not None and not empty.
Truthy(obj) == ~obj.is_none /\ DOMAIN obj.meta_data # {}

\* Mutant: keys the target already has keep the target's value.
DictFillGaps(t, s) ==
    [k \in DOMAIN t \cup DOMAIN s |-> IF k \in DOMAIN t THEN t[k] ELSE s[k]]

\* dict.update: t.update(s)
DictUpdate(t, s) ==
    [k \in DOMAIN t \cup DOMAIN s |-> IF k \in DOMAIN s THEN s[k] ELSE t[k]]

\* merge_metadata(target, source): the target after the call.
merge_metadata(target, source) ==
    IF ~target.has_meta \/ ~source.has_meta THEN target
    ELSE IF Truthy(target) /\ Truthy(source)
    THEN [target EXCEPT !.meta_data = DictUpdate(target.meta_data, source.meta_data)]
    ELSE IF Truthy(source)
    THEN MetaDict(source.meta_data)
    ELSE target

InitMerge ==
    /\ merge_target = NoMetaAttr
    /\ merge_source = NoMetaAttr
    /\ merge_before = NoMetaAttr
    /\ merge_done = FALSE

\* The objects of a call are chosen.
MergeInputs ==
    /\ \E target \in MetaObjects, source \in MetaObjects :
          /\ merge_target' = target
          /\ merge_source' = source
          /\ merge_before' = target
    /\ merge_done' = FALSE
    /\ UNCHANGED NotMerge

\* merge_metadata(target, source) runs.
Merge ==
    /\ ~merge_done
    /\ merge_target' = merge_metadata(merge_target, merge_source)
    /\ merge_done' = TRUE
    /\ UNCHANGED <<merge_source, merge_before>>
    /\ UNCHANGED NotMerge

NextMerge ==
    \/ MergeInputs
    \/ Merge

-----------------------------------------------------------------------------
(* RemoteAgentConnections.send_task and its caller HostAgent.send_task *)

\* The requests of the model: TaskSendParams.meta_data as HostAgent.send_task
\* sets it ({"conversation_id": session_id}) and the meta_data of its message.
\* The message_id of a request message is a given one or the message_id of a
\* message delivered earlier.
RequestMetas == {MetaDict([conversation_id |-> Given(1)])}

DeliveredMessageIds ==
    {delivered[i].arg.message.meta_data["message_id"] :
        i \in {j \in 1..Len(delivered) :
                  /\ delivered[j].arg.has_message
                  /\ "message_id" \in DOMAIN delivered[j].arg.message.meta_data}}

RequestMessageMetas ==
    {MetaNone, MetaDict([conversation_id |-> Given(1)])}
    \cup {MetaDict([conversation_id |-> Given(1), message_id |-> id]) :
             id \in {Given(2)} \cup DeliveredMessageIds}

\* TaskState values a status can carry.
ResolvedStates == {"input_required", "completed", "cancelled", "failed"}

\* The result of a SendTaskStreamingResponse: a TaskStatusUpdateEvent (status
\* with or without a message, final), a TaskArtifactUpdateEvent (neither a
\* status nor a final attribute) or None.  wire_final is the final flag of the
\* JSON the server sent; final is the attribute of the decoded object.
StatusEvent(has_message, message, final, state) ==
    [kind |-> "status", has_message |-> has_message, message |-> message,
     final |-> final, wire_final |-> final, state |-> state, meta |-> MetaNone]
ArtifactEvent(wire_final) ==
    [kind |-> "artifact", has_message |-> FALSE, message |-> NoMetaAttr,
     final |-> FALSE, wire_final |-> wire_final, state |-> "", meta |-> MetaNone]
NoResult ==
    [kind |-> "none", has_message |-> FALSE, message |-> NoMetaAttr,
     final |-> FALSE, wire_final |-> FALSE, state |-> "", meta |-> NoMetaAttr]

ServerMessageMetas == {MetaNone, MetaDict([message_id |-> Given(1)])}

\* The streamed results of the model: updates on the way report working, the
\* final one a resolved state.
StreamResults ==
    {StatusEvent(FALSE, NoMetaAttr, FALSE, "working")}
    \cup {StatusEvent(FALSE, NoMetaAttr, TRUE, st) : st \in ResolvedStates}
    \cup {StatusEvent(TRUE, m, f, IF f THEN "completed" ELSE "working") :
             m \in ServerMessageMetas, f \in BOOLEAN}
    \cup {ArtifactEvent(wf) : wf \in BOOLEAN}
    \cup {NoResult}

\* The result of a SendTaskResponse: a Task, with or without a status message,
\* or None (an error response).
TaskResult(has_message, message, state) ==
    [kind |-> "task", has_message |-> has_message, message |-> message,
     final |-> FALSE, wire_final |-> FALSE, state |-> state, meta |-> MetaNone]

UnaryResults ==
    {TaskResult(FALSE, NoMetaAttr, st) : st \in ResolvedStates}
    \cup {TaskResult(TRUE, m, "completed") : m \in ServerMessageMetas}
    \cup {NoResult}

\* task_callback: None, a callable that needs both parameters of
\* TaskUpdateCallback (task, agent_card), or one whose second is optional.
CallbackKinds == {"None", "task_and_card", "card_optional"}

\* Mutant: the fresh message_id is stored without keeping the old one.
ReplaceMessageId(d, fresh) == DictPut(d, "message_id", fresh)

\* if 'message_id' in m.meta_data:
\*     m.meta_data['last_message_id'] = m.meta_data['message_id']
\* m.meta_data['message_id'] = str(uuid.uuid4())
ChainMessageId(d, fresh) ==
    LET renamed == IF "message_id" \in DOMAIN d
                   THEN DictPut(d, "last_message_id", d["message_id"])
                   ELSE d
    IN DictPut(renamed, "message_id", fresh)

\* hasattr(result, "status") and hasattr(result.status, "message")
\*     and result.status.message
HasStatusMessage(result) == result.kind \in {"status", "task"} /\ result.has_message

\* What both paths do to a result before the callback: the request's metadata
\* is merged into it and into its status message, and the message is chained.
ProcessResult(result, req, fresh) ==
    LET merged == [result EXCEPT !.meta = merge_metadata(result.meta, req.meta)]
        m == merge_metadata(result.message, req.message)
        d == IF Truthy(m) THEN m.meta_data ELSE EmptyDict
    IN IF HasStatusMessage(result)
       THEN [merged EXCEPT !.message = MetaDict(ChainMessageId(d, fresh))]
       ELSE merged

\* Task(id=request.id, ..., status=TaskStatus(state=SUBMITTED,
\*      message=request.message), history=[request.message])
SubmittedTask(req) ==
    [kind |-> "task", has_message |-> TRUE, message |-> req.message,
     final |-> FALSE, wire_final |-> FALSE, state |-> "submitted", meta |-> MetaNone]

Delivery(arg, received, req, call) ==
    [arg |-> arg, received |-> received, request_message |-> req.message,
     call |-> call]

\* Mutant: the loop never looks at final.
NeverEndsStream(result) == FALSE

\* if hasattr(response.result, "final") and response.result.final: break
EndsStream(result) == result.kind = "status" /\ result.final

\* How RemoteAgentConnections.send_task ends.
AdPending == [ret |-> "pending", exc |-> "", result |-> NoResult]
AdReturn(result) ==
    [ret |-> IF result.kind = "none" THEN "None" ELSE "Task", exc |-> "",
     result |-> result]
AdRaise(exc) == [ret |-> "raise", exc |-> exc, result |-> NoResult]

\* The streaming path returns the local task, which is never assigned.
StreamingReturn == AdReturn(NoResult)

\* task_callback(response.result): one positional argument.
UnaryCallbackAccepts(cb) == cb = "card_optional"

\* How HostAgent.send_task ends and what it leaves in the tool context.
HostIdle ==
    [ret |-> "none", exc |-> "", msg |-> "", session_active |-> "unset",
     escalate |-> FALSE, path |-> "none", agent |-> "unset"]

\* The keys of self.remote_agent_connections, and the names callers pass.
RegisteredAgents == {"remote agent"}

AgentNames == RegisteredAgents \cup {"stranger"}

\* Mutant: the active agent is recorded before the name is looked up.
HostStartRecordingFirst(h, agent_name) ==
    IF agent_name \notin RegisteredAgents
    THEN [HostIdle EXCEPT !.ret = "raise", !.exc = "ValueError",
                          !.msg = "not found",
                          !.session_active = h.session_active,
                          !.agent = agent_name, !.path = "unknown_agent"]
    ELSE [HostIdle EXCEPT !.session_active = h.session_active,
                          !.agent = agent_name]

\* HostAgent.send_task up to state['agent'] = agent_name: a name that is not
\* registered raises ValueError first.
HostStart(h, agent_name) ==
    IF agent_name \notin RegisteredAgents
    THEN [HostIdle EXCEPT !.ret = "raise", !.exc = "ValueError",
                          !.msg = "not found",
                          !.session_active = h.session_active,
                          !.agent = h.agent, !.path = "unknown_agent"]
    ELSE [HostIdle EXCEPT !.session_active = h.session_active,
                          !.agent = agent_name]

\* elif task.status.state == CANCELLED: raise ... elif ... FAILED: raise ...
HostRaisesFor(st) == st \in {"cancelled", "failed"}

\* HostAgent.send_task from the return of client.send_task on.
HostContinue(h, returned) ==
    IF returned.ret = "raise"
    THEN [h EXCEPT !.ret = "raise", !.exc = returned.exc]
    ELSE IF returned.ret = "None"
    THEN [h EXCEPT !.ret = "raise", !.exc = "AttributeError"]
    ELSE LET st == returned.result.state
             active == IF st \in {"completed", "cancelled", "failed", "unknown"}
                       THEN "False" ELSE "True"
         IN IF st = "input_required"
            THEN [h EXCEPT !.ret = "response", !.session_active = active,
                           !.escalate = TRUE]
            ELSE IF HostRaisesFor(st)
            THEN [h EXCEPT !.ret = "raise", !.exc = "ValueError", !.msg = st,
                           !.session_active = active]
            ELSE [h EXCEPT !.ret = "response", !.session_active = active]

InitAdapter ==
    /\ ad_pc = "new"
    /\ ad_conn = [streaming |-> FALSE, callback |-> "None"]
    /\ ad_request = [meta |-> MetaNone, message |-> MetaNone,
                     callback |-> "None", streaming |-> FALSE]
    /\ ad_sends = 0
    /\ delivered = <<>>
    /\ next_uuid = 0
    /\ ad_heard = <<>>
    /\ ad_returned = AdPending
    /\ host = HostIdle

\* HostAgent.__init__: the host agent is built with a task_callback and makes
\* a RemoteAgentConnections for the card it resolved.
Connect ==
    /\ ad_pc = "new"
    /\ ad_conn' \in [streaming : BOOLEAN, callback : CallbackKinds]
    /\ ad_pc' = "idle"
    /\ UNCHANGED <<ad_request, ad_sends, delivered, next_uuid, ad_heard, ad_returned,
                   host>>
    /\ UNCHANGED NotAdapter

\* The TaskSendParams of a call, with the callback and the path it takes.
Requests ==
    [meta : RequestMetas, message : RequestMessageMetas,
     callback : {ad_conn.callback}, streaming : {ad_conn.streaming}]

\* send_task is called for an agent whose card advertises streaming: the
\* SUBMITTED task goes to the callback and the stream is opened.
SendTaskStreaming ==
    /\ ad_pc = "idle"
    /\ ad_conn.streaming
    /\ ad_sends < MaxSends
    /\ \E req \in Requests :
          /\ ad_request' = req
          /\ delivered' = IF req.callback # "None"
                          THEN Append(delivered,
                                      Delivery(SubmittedTask(req), SubmittedTask(req), req,
                                               ad_sends + 1))
                          ELSE delivered
    /\ ad_sends' = ad_sends + 1
    /\ ad_pc' = "streaming"
    /\ ad_heard' = <<>>
    /\ ad_returned' = AdPending
    /\ \E agent_name \in RegisteredAgents :
          host' = [HostStart(host, agent_name) EXCEPT !.path = "streaming"]
    /\ UNCHANGED <<next_uuid, ad_conn>>
    /\ UNCHANGED NotAdapter

\* One round of the async for: the streaming client yields a response, its
\* result is merged, chained and handed to the callback, and a result whose
\* final attribute is true ends the loop and the call.
StreamResponse ==
    /\ ad_pc = "streaming"
    /\ Len(delivered) <= MaxEvents
    /\ Len(ad_heard) <= MaxEvents
    /\ next_uuid < MaxEvents
    /\ \E result \in StreamResults :
          LET arg == ProcessResult(result, ad_request, Uuid4(next_uuid + 1))
          IN /\ delivered' = IF ad_request.callback # "None"
                             THEN Append(delivered, Delivery(arg, result, ad_request, ad_sends))
                             ELSE delivered
             /\ ad_heard' = Append(ad_heard, result)
             /\ next_uuid' = IF HasStatusMessage(result)
                             THEN next_uuid + 1
                             ELSE next_uuid
             /\ ad_pc' = IF EndsStream(arg) THEN "returned" ELSE "streaming"
             /\ ad_returned' = IF EndsStream(arg) THEN StreamingReturn ELSE ad_returned
    /\ UNCHANGED <<ad_request, ad_sends, host, ad_conn>>
    /\ UNCHANGED NotAdapter

\* The streaming client's sequence ends: send_task returns.
StreamExhausted ==
    /\ ad_pc = "streaming"
    /\ ad_pc' = "returned"
    /\ ad_returned' = StreamingReturn
    /\ UNCHANGED <<ad_request, ad_sends, delivered, next_uuid, ad_heard, host,
                   ad_conn>>
    /\ UNCHANGED NotAdapter

\* send_task is called for an agent whose card does not advertise streaming:
\* one unary call, its result merged and chained, the callback, the return.
SendTaskUnary ==
    /\ ad_pc = "idle"
    /\ ~ad_conn.streaming
    /\ ad_sends < MaxSends
    /\ next_uuid < MaxEvents
    /\ \E req \in Requests, result \in UnaryResults :
          LET arg == ProcessResult(result, req, Uuid4(next_uuid + 1))
              called == req.callback # "None"
              accepted == called /\ UnaryCallbackAccepts(req.callback)
          IN /\ ad_request' = req
             /\ ad_heard' = <<result>>
             /\ next_uuid' = IF HasStatusMessage(result) THEN next_uuid + 1 ELSE next_uuid
             /\ delivered' = IF accepted
                             THEN Append(delivered, Delivery(arg, result, req, ad_sends + 1))
                             ELSE delivered
             /\ ad_returned' = IF called /\ ~accepted
                               THEN AdRaise("TypeError")
                               ELSE AdReturn(arg)
    /\ ad_sends' = ad_sends + 1
    /\ ad_pc' = "returned"
    /\ \E agent_name \in RegisteredAgents :
          host' = [HostStart(host, agent_name) EXCEPT !.path = "unary"]
    /\ UNCHANGED ad_conn
    /\ UNCHANGED NotAdapter

\* HostAgent.send_task is called with a name that is not registered.
SendTaskUnknownAgent ==
    /\ ad_pc = "idle"
    /\ \E agent_name \in AgentNames \ RegisteredAgents :
          host' = HostStart(host, agent_name)
    /\ UNCHANGED <<ad_pc, ad_request, ad_sends, delivered, next_uuid, ad_heard,
                   ad_returned, ad_conn>>
    /\ UNCHANGED NotAdapter

\* HostAgent.send_task goes on with what client.send_task returned or raised.
HostResume ==
    /\ ad_pc = "returned"
    /\ host' = HostContinue(host, ad_returned)
    /\ ad_pc' = "idle"
    /\ UNCHANGED <<ad_request, ad_sends, delivered, next_uuid, ad_heard, ad_returned,
                   ad_conn>>
    /\ UNCHANGED NotAdapter

NextAdapter ==
    \/ Connect
    \/ SendTaskStreaming
    \/ StreamResponse
    \/ StreamExhausted
    \/ SendTaskUnary
    \/ SendTaskUnknownAgent
    \/ HostResume

-----------------------------------------------------------------------------
(* A2AClient.send_task_streaming *)

\* The data of a server-sent event: the JSON of a response whose result is a
\* status update or an artifact update, with the final flag the server wrote,
\* or text that is not JSON.
WireKinds == {"status", "artifact", "malformed"}

WireEvent(kind, final, n) == [kind |-> kind, final |-> final, seq |-> n]

WireEvents(n) ==
    {WireEvent(k, f, n) : k \in {"status", "artifact"}, f \in BOOLEAN}
    \cup {WireEvent("malformed", FALSE, n)}

\* SendTaskStreamingResponse(**json.loads(sse.data)): TaskStatusUpdateEvent
\* declares final, TaskArtifactUpdateEvent does not and the field is dropped.
DecodeResponse(w) ==
    [kind |-> w.kind, seq |-> w.seq,
     has_final |-> w.kind = "status",
     final |-> w.kind = "status" /\ w.final]

InitStream ==
    /\ wire = <<>>
    /\ wire_open = TRUE
    /\ yielded = <<>>
    /\ gen_state = "running"

\* The server writes one more event on the open connection.
Arrive ==
    /\ wire_open
    /\ Len(wire) < MaxWire
    /\ \E e \in WireEvents(Len(wire) + 1) : wire' = Append(wire, e)
    /\ UNCHANGED <<wire_open, yielded, gen_state>>
    /\ UNCHANGED NotStream

\* The server closes the connection.
ServerClose ==
    /\ wire_open
    /\ wire_open' = FALSE
    /\ UNCHANGED <<wire, yielded, gen_state>>
    /\ UNCHANGED NotStream

\* for sse in event_source.iter_sse(): yield SendTaskStreamingResponse(...)
Yield ==
    /\ gen_state = "running"
    /\ Len(yielded) < Len(wire)
    /\ wire[Len(yielded) + 1].kind # "malformed"
    /\ yielded' = Append(yielded, DecodeResponse(wire[Len(yielded) + 1]))
    /\ UNCHANGED <<wire, wire_open, gen_state>>
    /\ UNCHANGED NotStream

\* except json.JSONDecodeError as e: raise A2AClientJSONError(str(e)) from e
RaiseJSONError ==
    /\ gen_state = "running"
    /\ Len(yielded) < Len(wire)
    /\ wire[Len(yielded) + 1].kind = "malformed"
    /\ gen_state' = "A2AClientJSONError"
    /\ UNCHANGED <<wire, wire_open, yielded>>
    /\ UNCHANGED NotStream

\* except httpx.HTTPError as e: raise A2AClientHTTPError(400, str(e)) from e
RaiseHTTPError ==
    /\ gen_state = "running"
    /\ wire_open
    /\ Len(yielded) = Len(wire)
    /\ wire_open' = FALSE
    /\ gen_state' = "A2AClientHTTPError"
    /\ UNCHANGED <<wire, yielded>>
    /\ UNCHANGED NotStream

\* iter_sse() is exhausted: the connection is closed and every event read.
GeneratorEnd ==
    /\ gen_state = "running"
    /\ ~wire_open
    /\ Len(yielded) = Len(wire)
    /\ gen_state' = "ended"
    /\ UNCHANGED <<wire, wire_open, yielded>>
    /\ UNCHANGED NotStream

\* The caller stops consuming: the generator is closed at its yield.
CallerStops ==
    /\ gen_state = "running"
    /\ gen_state' = "closed"
    /\ wire_open' = FALSE
    /\ UNCHANGED <<wire, yielded>>
    /\ UNCHANGED NotStream

NextStream ==
    \/ Arrive
    \/ ServerClose
    \/ Yield
    \/ RaiseJSONError
    \/ RaiseHTTPError
    \/ GeneratorEnd
    \/ CallerStops

-----------------------------------------------------------------------------
(* Protocol types: JSONRPCResponse, FileContent, A2ARequest *)

\* The values a constructor is given for a field: the key is absent, it is
\* None, it is a string, or it is an object with a set of keys whose values are
\* all well formed.
Absent == [kind |-> "absent", keys |-> {}, text |-> ""]

Null == [kind |-> "None", keys |-> {}, text |-> ""]

Str(text) == [kind |-> "string", keys |-> {}, text |-> text]

Object(keys) == [kind |-> "object", keys |-> keys, text |-> ""]

\* The fields without a default of the models a response or request holds.
RequiredFields ==
    [Task |-> {"id", "status"},
     TaskStatusUpdateEvent |-> {"id", "status"},
     TaskArtifactUpdateEvent |-> {"id", "artifact"},
     TaskPushNotificationConfig |-> {"id", "pushNotificationConfig"},
     JSONRPCError |-> {"code", "message"},
     TaskSendParams |-> {"id", "message"},
     TaskQueryParams |-> {"id"},
     TaskIdParams |-> {"id"}]

\* pydantic validation of a value against a model: an object that has every
\* required field; extra keys are ignored.
Validates(model, v) == v.kind = "object" /\ RequiredFields[model] \subseteq v.keys

\* The attribute is not None.
IsSet(v) == v.kind \notin {"absent", "None"}

ResponseClasses ==
    {"JSONRPCResponse", "SendTaskResponse", "SendTaskStreamingResponse",
     "GetTaskResponse", "CancelTaskResponse", "SetTaskPushNotificationResponse",
     "GetTaskPushNotificationResponse"}

\* The annotation of result in each response class, None apart; JSONRPCResponse
\* declares Any.
ResultModels(cls) ==
    CASE cls \in {"SendTaskResponse", "GetTaskResponse", "CancelTaskResponse"} ->
             {"Task"}
      [] cls = "SendTaskStreamingResponse" ->
             {"TaskStatusUpdateEvent", "TaskArtifactUpdateEvent"}
      [] cls \in {"SetTaskPushNotificationResponse",
                  "GetTaskPushNotificationResponse"} ->
             {"TaskPushNotificationConfig"}
      [] OTHER -> {}

\* A field declared  T | None = None  (any_type: declared Any | None = None).
OptionalField(models, any_type, v) ==
    IF ~IsSet(v) THEN [ok |-> TRUE, value |-> Null]
    ELSE IF any_type \/ \E m \in models : Validates(m, v)
         THEN [ok |-> TRUE, value |-> v]
         ELSE [ok |-> FALSE, value |-> Null]

\* cls(**data) for a response class: the fields are validated one by one and
\* there is no model validator.  data carries a valid jsonrpc and id.
ConstructResponse(cls, data) ==
    LET r == OptionalField(ResultModels(cls), cls = "JSONRPCResponse", data.result)
        e == OptionalField({"JSONRPCError"}, FALSE, data.error)
    IN  IF r.ok /\ e.ok
        THEN [ok |-> TRUE, exc |-> "", type |-> cls,
              result |-> r.value, error |-> e.value]
        ELSE [ok |-> FALSE, exc |-> "ValidationError", type |-> "",
              result |-> Null, error |-> Null]

ResultInputs ==
    {Absent, Null, Str("text"), Object({"id", "status"}),
     Object({"id", "status", "final"}), Object({"id", "artifact"}),
     Object({"id", "pushNotificationConfig"})}

ErrorInputs ==
    {Absent, Null, Str("text"), Object({"code", "message"}), Object({"message"})}

\* A string-or-None field of FileContent counts when it is truthy.
TruthyStr(v) == v.kind = "string" /\ v.text # ""

FileInputs == {Absent, Null, Str(""), Str("content")}

\* FileContent(bytes=..., uri=...): the fields, then check_content.
ConstructFileContent(data) ==
    IF ~(TruthyStr(data.bytes) \/ TruthyStr(data.uri))
    THEN [ok |-> FALSE, exc |-> "ValueError",
          msg |-> "Either bytes or uri must be provided",
          bytes |-> Null, uri |-> Null]
    ELSE IF TruthyStr(data.bytes) /\ TruthyStr(data.uri)
         THEN [ok |-> FALSE, exc |-> "ValueError",
               msg |-> "Only one of bytes or uri must be provided",
               bytes |-> Null, uri |-> Null]
         ELSE [ok |-> TRUE, exc |-> "", msg |-> "",
               bytes |-> IF IsSet(data.bytes) THEN data.bytes ELSE Null,
               uri |-> IF IsSet(data.uri) THEN data.uri ELSE Null]

\* The members of the A2ARequest union: class, method literal, params model.
RequestClasses ==
    {[name |-> "SendTaskRequest", method |-> "tasks/send",
      params |-> "TaskSendParams"],
     [name |-> "GetTaskRequest", method |-> "tasks/get",
      params |-> "TaskQueryParams"],
     [name |-> "CancelTaskRequest", method |-> "tasks/cancel",
      params |-> "TaskIdParams"],
     [name |-> "SetTaskPushNotificationRequest",
      method |-> "tasks/setPushNotification/set",
      params |-> "TaskPushNotificationConfig"],
     [name |-> "GetTaskPushNotificationRequest",
      method |-> "tasks/pushNotification/get",
      params |-> "TaskIdParams"],
     [name |-> "TaskResubscribeRequest", method |-> "tasks/reSubscribe",
      params |-> "TaskIdParams"],
     [name |-> "SendTaskStreamingRequest", method |-> "tasks/sendSubscribe",
      params |-> "TaskSendParams"]}

\* Mutant: an unknown tag falls back on the first member of the union.
DiscriminateOrDefault(tag) ==
    IF \E c \in RequestClasses : c.method = tag
    THEN {c \in RequestClasses : c.method = tag}
    ELSE {c \in RequestClasses : c.name = "SendTaskRequest"}

\* Field(discriminator='method'): the members whose method literal is the tag.
Discriminate(tag) == {c \in RequestClasses : c.method = tag}

MethodInputs ==
    {Absent, Null}
        \cup {Str(c.method) : c \in RequestClasses}
        \cup {Str("tasks/unknown"), Str("tasks/Send"), Str("")}

ParamInputs ==
    {Absent, Null, Object({}), Object({"id"}), Object({"id", "message"}),
     Object({"id", "pushNotificationConfig"})}

\* A2ARequest.validate_python(data): the member is picked by the method tag and
\* the data validated against it.  data carries a valid jsonrpc and id.
DecodeRequest(data) ==
    IF data.method.kind # "string"
    THEN [ok |-> FALSE, exc |-> "ValidationError", type |-> ""]
    ELSE LET members == Discriminate(data.method.text)
         IN  IF members = {}
             THEN [ok |-> FALSE, exc |-> "ValidationError", type |-> ""]
             ELSE LET c == CHOOSE c \in members : TRUE
                  IN  IF Validates(c.params, data.params)
                      THEN [ok |-> TRUE, exc |-> "", type |-> c.name]
                      ELSE [ok |-> FALSE, exc |-> "ValidationError", type |-> ""]

Built(op, cls, data, out) == [op |-> op, cls |-> cls, data |-> data, out |-> out]

InitTypes == built = Built("none", "", Null, Null)

\* A response class is instantiated from keyword data.
BuildResponse ==
    /\ \E cls \in ResponseClasses, result \in ResultInputs, error \in ErrorInputs :
          LET data == [result |-> result, error |-> error]
          IN  built' = Built("response", cls, data, ConstructResponse(cls, data))
    /\ UNCHANGED NotTypes

\* new_incompatible_types_error(request_id)
NewIncompatibleTypesError ==
    /\ LET data == [result |-> Absent, error |-> Object({"code", "message", "data"})]
       IN  built' = Built("new_incompatible_types_error", "JSONRPCResponse", data,
                          ConstructResponse("JSONRPCResponse", data))
    /\ UNCHANGED NotTypes

\* new_not_implemented_error(request_id)
NewNotImplementedError ==
    /\ LET data == [result |-> Absent, error |-> Object({"code", "message", "data"})]
       IN  built' = Built("new_not_implemented_error", "JSONRPCResponse", data,
                          ConstructResponse("JSONRPCResponse", data))
    /\ UNCHANGED NotTypes

\* A FileContent is instantiated.
BuildFileContent ==
    /\ \E bytes \in FileInputs, uri \in FileInputs :
          LET data == [bytes |-> bytes, uri |-> uri]
          IN  built' = Built("file", "FileContent", data, ConstructFileContent(data))
    /\ UNCHANGED NotTypes

\* A request is decoded through A2ARequest.
BuildRequest ==
    /\ \E method \in MethodInputs, params \in ParamInputs :
          LET data == [method |-> method, params |-> params]
          IN  built' = Built("request", "A2ARequest", data, DecodeRequest(data))
    /\ UNCHANGED NotTypes

NextTypes ==
    \/ BuildResponse
    \/ NewIncompatibleTypesError
    \/ NewNotImplementedError
    \/ BuildFileContent
    \/ BuildRequest

-----------------------------------------------------------------------------
(* A2AClient: the unary operations and _send_request *)

\* The unary operations: the request class each builds from its payload and
\* the response class it builds from the reply.
ClientOps ==
    {[name |-> "send_task", request |-> "SendTaskRequest",
      response |-> "SendTaskResponse"],
     [name |-> "get_task", request |-> "GetTaskRequest",
      response |-> "GetTaskResponse"],
     [name |-> "cancel_task", request |-> "CancelTaskRequest",
      response |-> "CancelTaskResponse"],
     [name |-> "set_task_callback", request |-> "SetTaskPushNotificationRequest",
      response |-> "SetTaskPushNotificationResponse"],
     [name |-> "get_task_callback", request |-> "GetTaskPushNotificationRequest",
      response |-> "GetTaskPushNotificationResponse"]}

\* The params model of a request class.
ParamsModel(request_class) ==
    (CHOOSE c \in RequestClasses : c.name = request_class).params

NoBody == [json |-> FALSE, id |-> Absent, result |-> Absent, error |-> Absent]

\* The id of the request an operation sends.
RequestId == Str("request-id")

\* The id member of the JSON bodies servers reply with.
ReplyIds == {Absent, RequestId, Str("other-id")}

\* JSONRPCMessage.id: default_factory gives a message without id a new one.
MessageId(v) == IF v.kind = "absent" THEN Str("uuid4().hex") ELSE v

\* The subclasses of httpx.HTTPError client.post raises when no response
\* arrives.
TransportErrors == {"ConnectError", "ReadTimeout"}

StatusCodes == {200, 404, 500}

\* The result and error members of the JSON bodies servers reply with.
ReplyResults == {Absent, Object({"id", "status"}), Object({"id", "pushNotificationConfig"})}

ReplyErrors == {Absent, Object({"code", "message"})}

\* What client.post does: it raises, or it returns a response with a status
\* code and a body that is JSON or is not.
PostOutcomes ==
    [kind : TransportErrors, status : {0}, body : {NoBody}]
        \cup [kind : {"response"}, status : StatusCodes,
              body : {NoBody} \cup [json : {TRUE}, id : ReplyIds,
                                     result : ReplyResults, error : ReplyErrors]]

\* response.raise_for_status() raises httpx.HTTPStatusError.
RaiseForStatus(status) == ~(200 <= status /\ status <= 299)

Raised(exc, status_code) ==
    [raised |-> exc, status_code |-> status_code, response |-> Null]

\* Mutant: a reply whose error member is set is raised.
SendRequestRaisingErrors(post) ==
    IF post.kind \in TransportErrors THEN Raised("UnboundLocalError", 0)
    ELSE IF RaiseForStatus(post.status)
         THEN Raised("A2AClientHTTPError", post.status)
         ELSE IF ~post.body.json THEN Raised("A2AClientJSONError", 0)
              ELSE IF IsSet(post.body.error) THEN Raised("A2AClientError", 0)
                   ELSE [raised |-> "", status_code |-> post.status,
                         response |-> post.body]

\* _send_request: the local name response is bound only when client.post has
\* returned, and the handler for httpx.HTTPError reads response.status_code.
SendRequest(post) ==
    IF post.kind \in TransportErrors THEN Raised("UnboundLocalError", 0)
    ELSE IF RaiseForStatus(post.status)
         THEN Raised("A2AClientHTTPError", post.status)
         ELSE IF ~post.body.json THEN Raised("A2AClientJSONError", 0)
              ELSE [raised |-> "", status_code |-> post.status,
                    response |-> post.body]

\* op(payload): the request is built, sent with one client.post, and the reply
\* made a response of the operation's class.
ClientCall(op, params, post) ==
    IF ~Validates(ParamsModel(op.request), params)
    THEN [op |-> op.name, params |-> params, sent |-> FALSE, posts |-> 0,
          post |-> post, out |-> Raised("ValidationError", 0)]
    ELSE LET reply == SendRequest(post)
             made == ConstructResponse(op.response,
                                       [result |-> reply.response.result,
                                        error |-> reply.response.error])
         IN  [op |-> op.name, params |-> params, sent |-> TRUE, posts |-> 1,
              post |-> post,
              out |-> IF reply.raised # "" THEN reply
                      ELSE IF ~made.ok THEN Raised("ValidationError", 0)
                      ELSE [raised |-> "", status_code |-> reply.status_code,
                            response |->
                                [type |-> made.type,
                                 id |-> MessageId(reply.response.id),
                                 result |-> made.result,
                                 error |-> made.error]]]

InitClient ==
    cl_last = [op |-> "none", params |-> Null, sent |-> FALSE, posts |-> 0,
               post |-> [kind |-> "none", status |-> 0, body |-> NoBody],
               out |-> Raised("", 0)]

\* One of the unary operations is called and runs to its end.
ClientOperation ==
    /\ \E op \in ClientOps, params \in ParamInputs, post \in PostOutcomes :
          /\ ~Validates(ParamsModel(op.request), params) =>
                 post = [kind |-> "response", status |-> 200, body |-> NoBody]
          /\ cl_last' = ClientCall(op, params, post)
    /\ UNCHANGED NotClient

NextClient == ClientOperation

-----------------------------------------------------------------------------
(* PushNotificationSenderAuth as its callers see it *)

\* Mutant: the exposed list is replaced by the new key.
PublishOnly(keys, kid) == <<kid>>

\* generate_jwk: self.public_keys.append(key.export_public(as_dict=True))
Publish(keys, kid) == Append(keys, kid)

\* What the POST or GET of the sender can end in besides a response: the
\* exceptions httpx raises when none arrives.  With raise_for_status's
\* HTTPStatusError they all derive from Exception.
DeliveryErrors == TransportErrors \cup {"HTTPStatusError"}

\* Mutant: only the status error is caught.
CatchesStatusError(exc) == exc = "HTTPStatusError"

\* except Exception as e
Catches(exc) == exc \in DeliveryErrors

\* What client.post or client.get does: it raises, or a response arrives with
\* a status and a text.
Reply(kind, status, text) == [kind |-> kind, status |-> status, text |-> text]

\* The exception the try block ends with for a reply, "" for none.
TryRaises(reply) ==
    IF reply.kind \in TransportErrors THEN reply.kind
    ELSE IF RaiseForStatus(reply.status) THEN "HTTPStatusError"
    ELSE ""

NoPush ==
    [called |-> FALSE, posts |-> 0, raised |-> "", logged |-> "",
     reply |-> Reply("none", 0, <<>>)]

\* send_push_notification(url, data): the token is generated, then one POST
\* inside the try.
SendPush(key, reply) ==
    IF key = 0
    THEN [called |-> TRUE, posts |-> 0, raised |-> "AttributeError", logged |-> "",
          reply |-> Reply("none", 0, <<>>)]
    ELSE LET exc == TryRaises(reply)
         IN  [called |-> TRUE, posts |-> 1,
              raised |-> IF exc # "" /\ ~Catches(exc) THEN exc ELSE "",
              logged |-> IF exc = "" THEN "info"
                         ELSE IF Catches(exc) THEN "error" ELSE "",
              reply |-> reply]

PushReplies ==
    {Reply(e, 0, <<>>) : e \in TransportErrors}
        \cup {Reply("response", st, <<>>) : st \in StatusCodes}

NoUrlCheck ==
    [called |-> FALSE, token |-> Uuid4(0), ret |-> FALSE, raised |-> "",
     reply |-> Reply("none", 0, <<>>)]

\* Mutant: the body is accepted when the token occurs in it.
TextContains(text, token) == \E i \in DOMAIN text : text[i] = token

\* response.text == validation_token
TextIs(text, token) == text = <<token>>

\* verify_push_notification_url(url), with the uuid4 it draws and the reply its
\* GET gets.
VerifyUrl(token, reply) ==
    LET exc == TryRaises(reply)
    IN  [called |-> TRUE, token |-> token,
         ret |-> exc = "" /\ TextIs(reply.text, token),
         raised |-> IF exc # "" /\ ~Catches(exc) THEN exc ELSE "",
         reply |-> reply]

\* The texts an endpoint answers a challenge with: the token, the token and a
\* line end, the token of the call before, nothing.
UrlTexts(token, before) == {<<token>>, <<token, "\n">>, <<before>>, <<>>}

UrlReplies(token, before) ==
    {Reply(e, 0, <<>>) : e \in TransportErrors}
        \cup {Reply("response", st, text) :
                 st \in StatusCodes, text \in UrlTexts(token, before)}

InitSender ==
    /\ generated = <<>>
    /\ jwks_served = <<"never">>
    /\ push_last = NoPush
    /\ url_checks = 0
    /\ url_last = NoUrlCheck

\* generate_jwk as the sender's owner calls it: a key with a fresh kid, its
\* public half appended, its private half the signing key.
GenerateJwk ==
    /\ Len(generated) < MaxGenerated
    /\ LET kid == Len(generated) + 1
       IN  /\ public_keys' = Publish(public_keys, kid)
           /\ private_key_jwk' = kid
           /\ generated' = Append(generated, kid)
    /\ UNCHANGED <<now, jwks_client, request, verdict, seen_expired, from_sender>>
    /\ UNCHANGED <<jwks_served, push_last, url_checks, url_last>>
    /\ UNCHANGED NotSender

\* handle_jwks_endpoint: {"keys": self.public_keys}
HandleJwksEndpoint ==
    /\ jwks_served' = <<"keys", public_keys>>
    /\ UNCHANGED authVars
    /\ UNCHANGED <<generated, push_last, url_checks, url_last>>
    /\ UNCHANGED NotSender

\* send_push_notification is called; a request that got through is what the
\* receiver is presented with.
SendPushNotification ==
    /\ \E data \in Bodies, reply \in PushReplies :
          /\ push_last' = SendPush(private_key_jwk, reply)
          /\ IF private_key_jwk # 0 /\ reply.kind = "response"
             THEN /\ request' = PushRequest(data, now, private_key_jwk)
                  /\ verdict' = NoVerdict
                  /\ seen_expired' = FALSE
                  /\ from_sender' = TRUE
             ELSE UNCHANGED <<request, verdict, seen_expired, from_sender>>
    /\ UNCHANGED <<now, public_keys, private_key_jwk, jwks_client>>
    /\ UNCHANGED <<generated, jwks_served, url_checks, url_last>>
    /\ UNCHANGED NotSender

\* verify_push_notification_url is called.
VerifyPushNotificationUrl ==
    /\ url_checks < MaxUrlChecks
    /\ url_checks' = url_checks + 1
    /\ \E reply \in UrlReplies(Uuid4(url_checks + 1), Uuid4(url_checks)) :
          url_last' = VerifyUrl(Uuid4(url_checks + 1), reply)
    /\ UNCHANGED authVars
    /\ UNCHANGED <<generated, jwks_served, push_last>>
    /\ UNCHANGED NotSender

NextSender ==
    \/ GenerateJwk
    \/ HandleJwksEndpoint
    \/ SendPushNotification
    \/ VerifyPushNotificationUrl

-----------------------------------------------------------------------------
(* Specifications *)

Init ==
    /\ InitAuth
    /\ InitCache
    /\ InitMerge
    /\ InitAdapter
    /\ InitStream
    /\ InitTypes
    /\ InitClient
    /\ InitSender

SpecAuth == Init /\ [][NextAuth]_vars

SpecCache == Init /\ [][NextCache]_vars

SpecCacheData == Init /\ [][NextCacheData]_vars

SpecCacheShared == Init /\ [][NextCacheShared]_vars

SpecMerge == Init /\ [][NextMerge]_vars

SpecAdapter == Init /\ [][NextAdapter]_vars

SpecStream == Init /\ [][NextStream]_vars

SpecTypes == Init /\ [][NextTypes]_vars

SpecClient == Init /\ [][NextClient]_vars

SpecSender == Init /\ [][NextSender]_vars

-----------------------------------------------------------------------------
(* Push-notification auth: what the claims speak about, read off the state *)

Verified == verdict # NoVerdict
Hdr == request.auth_header
Tok == request.auth_header.credentials

\* Step 1: an Authorization header that begins with "Bearer ".
BearerHeader ==
    /\ Hdr.present
    /\ Len(Hdr.scheme) >= 7
    /\ \A i \in 1..7 : Hdr.scheme[i] = <<"B", "e", "a", "r", "e", "r", " ">>[i]

\* Step 2: the receiver has a JWKS client, the bearer text is a token and its kid
\* names a published key.
KeyResolved ==
    /\ BearerHeader
    /\ jwks_client = "PyJWKClient"
    /\ Len(Hdr.scheme) = 7
    /\ Tok # NoToken
    /\ \E i \in 1..Len(public_keys) : public_keys[i] = Tok.kid

\* Steps 3 and 4: RS256, signed by the key the kid names, both claims present.
AlgorithmIsRS256 == Tok.alg = "RS256"
SignedByNamedKey == Tok.sig = Tok.kid
ClaimsPresent == {"iat", "request_body_sha256"} \subseteq DOMAIN Tok.payload
IatInFuture == "iat" \in DOMAIN Tok.payload /\ Tok.payload.iat * TicksPerSecond > now
Decodes ==
    /\ KeyResolved
    /\ AlgorithmIsRS256
    /\ SignedByNamedKey
    /\ ClaimsPresent
    /\ ~IatInFuture

\* Step 5: the canonical digest of the body received against the claim.
ReceivedBody == CHOOSE b \in Bodies : HttpxJsonBody(b) = request.body
DigestClaimed == "request_body_sha256" \in DOMAIN Tok.payload
DigestDiffers ==
    /\ DigestClaimed
    /\ Tok.payload.request_body_sha256 # calculate_request_body_sha256(ReceivedBody)

\* Step 6: the age of the token in ticks, against 300 seconds.
Age == now - Tok.payload.iat * TicksPerSecond
WithinWindow == Age <= 300 * TicksPerSecond

Accepted == verdict.ret = "True"
RejectedAs(e, m) == verdict.ret = "raise" /\ verdict.exc = e /\ verdict.msg = m

-----------------------------------------------------------------------------
(* C1 *)

\* C1 (as stated): whenever the digest of the received body differs from the
\* token's request_body_sha256 claim, verification is rejected with the
\* body-mismatch condition, whatever the other fields of the request are.
C1_MismatchAlwaysReportedAsBodyMismatch ==
    (Verified /\ DigestDiffers) => RejectedAs("ValueError", "Invalid request body")

\* C1 (amended): a request whose body digest differs from the claim is never
\* accepted, and it is rejected with the body-mismatch condition whenever the
\* checks that precede the comparison pass (header, key lookup, algorithm,
\* signature, claims), whatever the age of the token.
C1_MismatchNeverAccepted ==
    (Verified /\ DigestDiffers) =>
        /\ ~Accepted
        /\ Decodes => RejectedAs("ValueError", "Invalid request body")

\* A token that decodes, is older than the window, and comes with another body
\* than the one signed: reported as a body mismatch.
C1_Witness ==
    /\ Verified
    /\ DigestDiffers
    /\ Decodes
    /\ ~WithinWindow
    /\ RejectedAs("ValueError", "Invalid request body")

-----------------------------------------------------------------------------
(* C2 *)

OtherChecksPass == Decodes /\ ~DigestDiffers

\* C2: a token that passes every other check is accepted at every time t with
\* t - iat <= 300 s (300 included) and rejected as expired at every t with
\* t - iat > 300 s; once rejected as expired it is not accepted at a later time.
C2_FreshnessWindow ==
    /\ (Verified /\ OtherChecksPass) =>
            IF WithinWindow THEN Accepted
            ELSE RejectedAs("ValueError", "Token expired")
    /\ (Verified /\ seen_expired) => ~Accepted

\* A token verified exactly 300 seconds after its iat is accepted.
C2_Witness ==
    /\ Verified
    /\ OtherChecksPass
    /\ Age = 300 * TicksPerSecond
    /\ Accepted

-----------------------------------------------------------------------------
(* C3 *)

\* C3: the request send_push_notification posts for a body, reaching unchanged
\* and within the freshness window a receiver that resolves the sender's
\* published keys, is accepted.
C3_RoundTrip ==
    (Verified /\ from_sender /\ jwks_client = "PyJWKClient" /\ WithinWindow)
        => Accepted

\* A sender's request for the reordered body, verified some time after it was
\* signed, is accepted.
C3_Witness ==
    /\ Verified
    /\ from_sender
    /\ request.body = HttpxJsonBody(BodyB)
    /\ Age > 0
    /\ Accepted

-----------------------------------------------------------------------------
(* C4 *)

\* C4: a token whose header names an algorithm other than RS256 is never
\* accepted, whatever its body digest and iat.
C4_OnlyRS256 ==
    (Verified /\ Tok # NoToken /\ Tok.alg # "RS256") => ~Accepted

\* An HS256 token with a known kid, a matching digest and a fresh iat is
\* rejected for its algorithm.
C4_Witness ==
    /\ Verified
    /\ KeyResolved
    /\ Tok.alg = "HS256"
    /\ ClaimsPresent
    /\ ~DigestDiffers
    /\ WithinWindow
    /\ verdict.exc = "InvalidAlgorithmError"

-----------------------------------------------------------------------------
(* C5 *)

\* C5: without an Authorization header, or with one that does not begin with
\* "Bearer ", verification returns false and no key lookup, signature check or
\* body read has taken place.
C5_HeaderRejectedFirst ==
    (Verified /\ ~BearerHeader) =>
        /\ verdict.ret = "False"
        /\ verdict.did = {}

\* A token that would otherwise be accepted, sent under the scheme "bearer ".
C5_Witness ==
    /\ Verified
    /\ Hdr.present
    /\ Hdr.scheme = <<"b", "e", "a", "r", "e", "r", " ">>
    /\ jwks_client = "PyJWKClient"
    /\ Tok # NoToken
    /\ Tok.kid \in Range(public_keys)
    /\ AlgorithmIsRS256 /\ SignedByNamedKey /\ ClaimsPresent
    /\ ~DigestDiffers /\ WithinWindow
    /\ verdict.ret = "False"

-----------------------------------------------------------------------------
(* C6 *)

\* The rejection path a request takes: the first check of steps 1 to 6 it fails.
RejectionPath ==
    IF ~BearerHeader THEN "header"
    ELSE IF ~KeyResolved THEN "unknown key"
    ELSE IF ~AlgorithmIsRS256 THEN "algorithm"
    ELSE IF ~SignedByNamedKey THEN "signature"
    ELSE IF ~ClaimsPresent THEN "missing claim"
    ELSE IF DigestDiffers THEN "body mismatch"
    ELSE IF ~WithinWindow THEN "expired"
    ELSE "none"

\* What is reported: the value returned, or the exception and, for the two
\* ValueErrors, its message.
Reported ==
    IF verdict.ret # "raise" THEN <<verdict.ret, "">>
    ELSE IF verdict.exc = "ValueError" THEN <<verdict.exc, verdict.msg>>
    ELSE <<verdict.exc, "">>

ReportFor(path) ==
    CASE path = "header" -> <<"False", "">>
      [] path = "unknown key" -> <<"PyJWKClientError", "">>
      [] path = "algorithm" -> <<"InvalidAlgorithmError", "">>
      [] path = "signature" -> <<"InvalidSignatureError", "">>
      [] path = "missing claim" -> <<"MissingRequiredClaimError", "">>
      [] path = "body mismatch" -> <<"ValueError", "Invalid request body">>
      [] path = "expired" -> <<"ValueError", "Token expired">>
      [] path = "none" -> <<"True", "">>

RejectionPaths ==
    {"header", "unknown key", "algorithm", "signature", "missing claim",
     "body mismatch", "expired"}

\* C6: each rejection path reports its own condition, different from that of
\* every other path; a body mismatch is reported neither as a signature failure
\* nor as an expiry.  (Requests with well-formed bearer text, at a receiver
\* whose JWKS client is loaded, with an iat that is not in the future.)
C6_RejectionsDistinguishable ==
    /\ \A p, q \in RejectionPaths : p # q => ReportFor(p) # ReportFor(q)
    /\ (/\ Verified
        /\ BearerHeader => (jwks_client = "PyJWKClient" /\ Tok # NoToken)
        /\ ~IatInFuture)
            => Reported = ReportFor(RejectionPath)

\* A token signed by a key that is not the one its kid names is reported as a
\* signature failure, although its body digest differs as well.
C6_Witness ==
    /\ Verified
    /\ RejectionPath = "signature"
    /\ DigestDiffers
    /\ Reported = <<"InvalidSignatureError", "">>

-----------------------------------------------------------------------------
(* C7 *)

\* C7: however the threads constructing InMemoryCache() interleave, at most one
\* instance is ever created and every constructor call returns that instance.
C7_SingleInstance ==
    /\ Len(instances) <= 1
    /\ Cardinality(constructed) <= 1

\* Two constructor calls have returned two different objects.
C7_TwoInstancesReturned == Cardinality(constructed) >= 2

-----------------------------------------------------------------------------
(* C8 *)

MergeBothHaveMetadata == merge_before.has_meta /\ merge_source.has_meta

\* C8 as stated: after merge_metadata every key only the source has appears in
\* the target with the source's value, and every key both have keeps the value
\* the target had before.
C8_TargetKeptOnConflict ==
    (merge_done /\ MergeBothHaveMetadata) =>
        \A k \in DOMAIN merge_source.meta_data :
            /\ k \in DOMAIN merge_target.meta_data
            /\ merge_target.meta_data[k] =
                   IF k \in DOMAIN merge_before.meta_data
                   THEN merge_before.meta_data[k]
                   ELSE merge_source.meta_data[k]

\* C8, amended: when target and source both have a meta_data attribute, after
\* merge_metadata every key of the source is in the target with the source's
\* value, every key only the target had keeps its value and no other key
\* appears; when either lacks the attribute the target is left as it was.
C8_SourceWinsOnConflict ==
    merge_done =>
        IF MergeBothHaveMetadata
        THEN /\ DOMAIN merge_target.meta_data =
                    DOMAIN merge_before.meta_data \cup DOMAIN merge_source.meta_data
             /\ \A k \in DOMAIN merge_source.meta_data :
                    merge_target.meta_data[k] = merge_source.meta_data[k]
             /\ \A k \in DOMAIN merge_before.meta_data \ DOMAIN merge_source.meta_data :
                    merge_target.meta_data[k] = merge_before.meta_data[k]
        ELSE merge_target = merge_before

\* A merge in which target and source disagree on one key and the target has
\* a key of its own.
C8_Witness ==
    /\ merge_done
    /\ MergeBothHaveMetadata
    /\ DOMAIN merge_before.meta_data = MetaKeys
    /\ DOMAIN merge_source.meta_data = {"message_id"}
    /\ merge_before.meta_data["message_id"] # merge_source.meta_data["message_id"]
    /\ merge_target.meta_data["message_id"] = merge_source.meta_data["message_id"]
    /\ merge_target.meta_data["conversation_id"] = merge_before.meta_data["conversation_id"]

-----------------------------------------------------------------------------
(* C9 *)

\* The deliveries that are status updates carrying a message.
StatusMessages ==
    {i \in 1..Len(delivered) :
        delivered[i].arg.kind = "status" /\ delivered[i].arg.has_message}

DeliveredMeta(i) == delivered[i].arg.message.meta_data

\* Two status updates with a message delivered by one call, none between them.
ConsecutiveUpdates(i, j) ==
    /\ i \in StatusMessages
    /\ j \in StatusMessages
    /\ i < j
    /\ delivered[i].call = delivered[j].call
    /\ \A k \in StatusMessages : ~(i < k /\ k < j)

\* The message_id the message carries once the request message's metadata is
\* merged into it: the request message's, else the one the server sent.
CarriedMessageId(i) ==
    LET rq == delivered[i].request_message.meta_data
        rc == delivered[i].received.message.meta_data
    IN IF "message_id" \in DOMAIN rq THEN {rq["message_id"]}
       ELSE IF "message_id" \in DOMAIN rc THEN {rc["message_id"]}
       ELSE {}

-----------------------------------------------------------------------------
(* C10 *)

\* Event k on the wire is the first status update with final = true.
FirstFinal(k) ==
    /\ k \in 1..Len(wire)
    /\ wire[k].kind = "status"
    /\ wire[k].final
    /\ \A j \in 1..(k - 1) : ~(wire[j].kind = "status" /\ wire[j].final)

\* C10 as stated: when event k is the first with final = true the sequence
\* yields events 1..k and no event after them, and it ends only having
\* yielded exactly those.
C10_NothingYieldedAfterFinal ==
    \A k \in 1..Len(wire) :
        FirstFinal(k) =>
            /\ Len(yielded) <= k
            /\ gen_state = "ended" => Len(yielded) = k

\* An event that arrived after the final one has been yielded.
C10_YieldedAfterFinal ==
    \E k \in 1..Len(wire) :
        /\ FirstFinal(k)
        /\ Len(yielded) > k
        /\ yielded[k].final
        /\ yielded[k + 1].seq = k + 1

-----------------------------------------------------------------------------
(* C11 *)

InCurrentCall(d) == d.call = ad_sends

\* What task_callback has been called with in the call in progress or just ended.
CallbackInvocations == SelectSeq(delivered, InCurrentCall)

StreamingCallWithCallback ==
    /\ ad_sends > 0
    /\ ad_request.streaming
    /\ ad_request.callback # "None"

-----------------------------------------------------------------------------
(* C12 *)

\* A unary call that got a Task back has ended, with a callback given.
UnaryCallEnded ==
    /\ ad_sends > 0
    /\ ~ad_request.streaming
    /\ ad_request.callback # "None"
    /\ ad_heard[1].kind = "task"

\* C12 as stated: on the unary path the Task of the one sendTask call is
\* delivered to the callback exactly once and returned, and its metadata has
\* the keys of the request's metadata with the request's values.
C12_UnaryDeliversAndReturns ==
    UnaryCallEnded =>
        /\ Len(ad_heard) = 1
        /\ Len(CallbackInvocations) = 1
        /\ CallbackInvocations[1].received = ad_heard[1]
        /\ ad_returned.ret = "Task"
        /\ ad_returned.result = CallbackInvocations[1].arg
        /\ \A k \in DOMAIN ad_request.meta.meta_data :
              /\ k \in DOMAIN ad_returned.result.meta.meta_data
              /\ ad_returned.result.meta.meta_data[k] = ad_request.meta.meta_data[k]

\* The callback takes (task, card): the call with one argument raised, nothing
\* was delivered and send_task did not return.
C12_CallbackTypeError ==
    /\ UnaryCallEnded
    /\ ad_request.callback = "task_and_card"
    /\ ad_returned = AdRaise("TypeError")
    /\ Len(CallbackInvocations) = 0

-----------------------------------------------------------------------------
(* C13 *)

\* HostAgent.send_task has ended for a task the agent resolved: on the unary
\* path the Task of the response, on the streaming path the final status update.
HostCallEnded ==
    /\ ad_sends > 0
    /\ ad_pc = "idle"
    /\ Len(ad_heard) > 0
    /\ ad_heard[Len(ad_heard)].kind \in {"task", "status"}
    /\ ad_request.streaming => ad_heard[Len(ad_heard)].final

ResolvedState == ad_heard[Len(ad_heard)].state

\* C13 as stated: on either path HostAgent.send_task raises for a task that
\* resolved to cancelled or failed, and for one in input_required it raises
\* nothing and sets escalate.
C13_FailureAndPauseSignals ==
    HostCallEnded =>
        /\ ResolvedState \in {"cancelled", "failed"} => host.ret = "raise"
        /\ ResolvedState = "input_required" =>
              host.ret = "response" /\ host.escalate

\* On the streaming path a task in input_required ended the call with an
\* AttributeError and escalate unset.
C13_StreamingPauseRaises ==
    /\ HostCallEnded
    /\ ad_request.streaming
    /\ ResolvedState = "input_required"
    /\ host.ret = "raise"
    /\ host.exc = "AttributeError"
    /\ ~host.escalate
    /\ host.session_active = "unset"

-----------------------------------------------------------------------------
(* C14 *)

\* The last call was a get of a key that was set with a ttl and has not been
\* set again, deleted or cleared since.
GetOfExpiringKey ==
    /\ cache_last.op = "get"
    /\ written[cache_last.key].set
    /\ written[cache_last.key].has_expiry

\* C14: after set(k, v, ttl), a get(k, default) at a time not later than the
\* recorded expiry instant returns v; a get at a later time returns default, and
\* after it k is in neither the value map nor the expiry index; this holds for
\* the first such get and for every later one until k is set again.
C14_TtlGet ==
    GetOfExpiringKey =>
        LET w == written[cache_last.key]
            obj == instances[cache_last.obj]
        IN  IF cache_last.at <= w.expiry
            THEN cache_last.ret = w.value
            ELSE /\ cache_last.ret = cache_last.expected
                 /\ cache_last.key \notin DOMAIN obj.cache_data
                 /\ cache_last.key \notin DOMAIN obj.ttl

\* A get after the expiry instant has returned the default it was given.
C14_Witness ==
    /\ GetOfExpiringKey
    /\ cache_last.at > written[cache_last.key].expiry
    /\ cache_last.ret = cache_last.expected
    /\ cache_last.expected = "fallback"

-----------------------------------------------------------------------------
(* C15 *)

\* C15: when the last set of k had no ttl, k has no recorded expiry, and a
\* get(k) returns the value of that set at every later time, also after the
\* expiry instant an earlier set had recorded.
C15_SetWithoutTtlClearsExpiry ==
    \A k \in CacheKeys :
        written[k].set /\ ~written[k].has_expiry =>
            /\ \A obj \in constructed : k \notin DOMAIN instances[obj].ttl
            /\ cache_last.op = "get" /\ cache_last.key = k =>
                   cache_last.ret = written[k].value

\* A get past the expiry instant of the replaced set has returned the value of
\* the set without ttl.
C15_Witness ==
    /\ cache_last.op = "get"
    /\ written[cache_last.key].set
    /\ written[cache_last.key].replaced_expiry
    /\ cache_last.at > written[cache_last.key].old_expiry
    /\ cache_last.ret = written[cache_last.key].value

-----------------------------------------------------------------------------
(* C16 *)

\* The constructor call of thread t has ended, and when it began cls._instance
\* named an initialized instance.
ConstructedAgain(t) ==
    /\ pc[t] = "idle"
    /\ calls[t] > 0
    /\ init_at_start[t] # 0

\* C16: an InMemoryCache() call made after the cache has been initialized
\* returns the existing instance, whose entries and expiries it leaves as they
\* were.
C16_ReturnsExistingInstance ==
    \A t \in Threads :
        ConstructedAgain(t) =>
            /\ self_[t] = init_at_start[t]
            /\ instances[init_at_start[t]].initialized

\* A constructor call that began after initialization has returned another
\* object than the initialized one.
C16_ReturnsOtherInstance ==
    \E t \in Threads : ConstructedAgain(t) /\ self_[t] # init_at_start[t]

-----------------------------------------------------------------------------
(* C17 *)

\* The last construction was of a JSON-RPC response.
ResponseBuilt ==
    built.op \in {"response", "new_incompatible_types_error",
                  "new_not_implemented_error"}

\* C17: every response object that is constructed has exactly one of result and
\* error set, and a construction given both, or neither, is rejected.
C17_ExactlyOneOfResultAndError ==
    ResponseBuilt =>
        /\ built.out.ok => (IsSet(built.out.result) # IsSet(built.out.error))
        /\ IsSet(built.data.result) = IsSet(built.data.error) => ~built.out.ok

\* A typed response was constructed with neither result nor error.
C17_NeitherAccepted ==
    /\ built.op = "response"
    /\ built.cls = "SendTaskResponse"
    /\ built.out.ok
    /\ ~IsSet(built.out.result)
    /\ ~IsSet(built.out.error)

-----------------------------------------------------------------------------
(* C18 *)

\* C18: constructing a FileContent succeeds if and only if exactly one of bytes
\* and uri is set (is not None); with both or with neither it fails.
C18_ExactlyOneOfBytesAndUri ==
    built.op = "file" =>
        (built.out.ok <=> (IsSet(built.data.bytes) # IsSet(built.data.uri)))

\* A FileContent exists with both bytes and uri set.
C18_BothSetAccepted ==
    /\ built.op = "file"
    /\ built.out.ok
    /\ IsSet(built.out.bytes)
    /\ IsSet(built.out.uri)

-----------------------------------------------------------------------------
(* C19 *)

KnownMethods ==
    {"tasks/send", "tasks/sendSubscribe", "tasks/get", "tasks/cancel",
     "tasks/setPushNotification/set", "tasks/pushNotification/get",
     "tasks/reSubscribe"}

\* The request type the protocol gives each method, and its params.
RequestTypeOf(method) ==
    CASE method = "tasks/send" -> "SendTaskRequest"
      [] method = "tasks/sendSubscribe" -> "SendTaskStreamingRequest"
      [] method = "tasks/get" -> "GetTaskRequest"
      [] method = "tasks/cancel" -> "CancelTaskRequest"
      [] method = "tasks/setPushNotification/set" -> "SetTaskPushNotificationRequest"
      [] method = "tasks/pushNotification/get" -> "GetTaskPushNotificationRequest"
      [] method = "tasks/reSubscribe" -> "TaskResubscribeRequest"

ParamsOf(method) ==
    CASE method \in {"tasks/send", "tasks/sendSubscribe"} -> "TaskSendParams"
      [] method = "tasks/get" -> "TaskQueryParams"
      [] method = "tasks/setPushNotification/set" -> "TaskPushNotificationConfig"
      [] OTHER -> "TaskIdParams"

\* C19: decoding a request whose method is one of the seven known strings
\* yields the request type of that method whenever its params are valid for
\* it, and never another type; decoding a request with any other method, or
\* with none, fails.
C19_DispatchClosed ==
    built.op = "request" =>
        LET m == built.data.method
        IN  IF m.kind = "string" /\ m.text \in KnownMethods
            THEN /\ built.out.ok <=> Validates(ParamsOf(m.text), built.data.params)
                 /\ built.out.ok => built.out.type = RequestTypeOf(m.text)
            ELSE ~built.out.ok /\ built.out.type = ""

\* A request with an unknown method and params that would do for tasks/send
\* has been refused.
C19_Witness ==
    /\ built.op = "request"
    /\ built.data.method = Str("tasks/unknown")
    /\ built.data.params = Object({"id", "message"})
    /\ ~built.out.ok

-----------------------------------------------------------------------------
(* C20 *)

\* The last operation sent its request and the transport failed: no response
\* arrived, or one with a status outside 2xx.
TransportFailed ==
    /\ cl_last.sent
    /\ \/ cl_last.post.kind \in TransportErrors
       \/ cl_last.post.kind = "response" /\ ~(cl_last.post.status \in 200..299)

\* C20: every transport failure of a unary client operation reaches the caller
\* as A2AClientHTTPError, with the status code of the response when there is
\* one, also when no response was received.
C20_TransportFailureIsHTTPError ==
    TransportFailed =>
        /\ cl_last.out.raised = "A2AClientHTTPError"
        /\ cl_last.post.kind = "response" =>
               cl_last.out.status_code = cl_last.post.status

\* A refused connection has reached the caller as UnboundLocalError.
C20_UnboundLocalError ==
    /\ cl_last.sent
    /\ cl_last.post.kind = "ConnectError"
    /\ cl_last.out.raised = "UnboundLocalError"

-----------------------------------------------------------------------------
(* C21 *)

\* The last operation sent its request and the reply was a JSON-RPC response
\* with its error member set and no result.
ErrorReply ==
    /\ cl_last.sent
    /\ cl_last.post.kind = "response"
    /\ cl_last.post.body.json
    /\ IsSet(cl_last.post.body.error)
    /\ ~IsSet(cl_last.post.body.result)

\* The operation made one POST and returned a response carrying the error the
\* reply carried.
ErrorReturnedAsData ==
    /\ cl_last.posts = 1
    /\ cl_last.out.raised = ""
    /\ cl_last.out.response.error = cl_last.post.body.error

\* C21 as stated: every well-formed JSON-RPC response with its error set is
\* returned to the caller as data, after one POST, and never raised.
C21_ErrorReturnedAsData == ErrorReply => ErrorReturnedAsData

\* C21, amended: a well-formed JSON-RPC response with its error set that
\* arrives with a 2xx status is returned to the caller as data, with that
\* error, after exactly one POST; arriving with any other status it is raised
\* as A2AClientHTTPError with that status, also after exactly one POST.
C21_ErrorWith2xxReturnedAsData ==
    ErrorReply =>
        IF cl_last.post.status \in 200..299
        THEN ErrorReturnedAsData
        ELSE /\ cl_last.posts = 1
             /\ cl_last.out.raised = "A2AClientHTTPError"
             /\ cl_last.out.status_code = cl_last.post.status

\* An error reply with status 200 has been returned as data by get_task.
C21_Witness ==
    /\ ErrorReply
    /\ cl_last.op = "get_task"
    /\ cl_last.post.status = 200
    /\ ErrorReturnedAsData

-----------------------------------------------------------------------------
(* C22 *)

\* C22: every response a unary operation returns has the id of the request
\* that was sent.
C22_ResponseIdIsRequestId ==
    cl_last.sent /\ cl_last.out.raised = "" =>
        cl_last.out.response.id = RequestId

\* A reply with another id has been returned as the result of the request.
C22_OtherIdReturned ==
    /\ cl_last.sent
    /\ cl_last.out.raised = ""
    /\ cl_last.post.body.id = Str("other-id")
    /\ cl_last.out.response.id = Str("other-id")

-----------------------------------------------------------------------------
(* C25 *)

\* A step in which HostAgent.send_task fails for an unknown agent name.
UnknownAgentStep == host' # host /\ host'.path = "unknown_agent"

\* C25: a send_task for a name that is not registered fails, and in failing it
\* starts no call to a remote agent, delivers nothing, and leaves the active
\* agent and session_active as they were; no unregistered name is ever the
\* active agent.
C25_UnknownAgentFailsFast ==
    /\ [](host.agent \notin AgentNames \ RegisteredAgents)
    /\ [][UnknownAgentStep =>
             /\ host'.ret = "raise"
             /\ host'.agent = host.agent
             /\ host'.session_active = host.session_active
             /\ UNCHANGED <<ad_pc, ad_sends, ad_request, ad_heard, delivered>>]_vars

\* A call for an unknown name has failed in a session that has an active agent
\* and session_active set.
C25_Witness ==
    /\ host.path = "unknown_agent"
    /\ host.exc = "ValueError"
    /\ host.agent \in RegisteredAgents
    /\ host.session_active = "True"

-----------------------------------------------------------------------------
(* C23 *)

\* C23: whatever its POST ends in (no connection, a timeout, a status outside
\* 2xx, success), a send_push_notification call makes at most one POST and,
\* having made it, returns without raising.
C23_BestEffort ==
    /\ push_last.posts <= 1
    /\ push_last.posts = 1 => push_last.raised = ""

\* A call whose POST found no connection has returned, the failure logged.
C23_Witness ==
    /\ push_last.called
    /\ push_last.reply.kind = "ConnectError"
    /\ push_last.posts = 1
    /\ push_last.raised = ""
    /\ push_last.logged = "error"

-----------------------------------------------------------------------------
(* C24 *)

\* The GET of the last call completed with a 2xx status and a body that is
\* exactly the token of that call.
ChallengeEchoed ==
    /\ url_last.reply.kind = "response"
    /\ url_last.reply.status \in 200..299
    /\ url_last.reply.text = <<url_last.token>>

\* C24: verify_push_notification_url returns true exactly when its GET, which
\* carries a token no earlier call used, completes with a success status and a
\* body equal to that token; in every other case it returns false, and in no
\* case does it raise.
C24_VerifiedIffEchoed ==
    url_last.called =>
        /\ url_last.raised = ""
        /\ url_last.ret <=> ChallengeEchoed
        /\ url_last.token = Uuid4(url_checks)

\* The second call was answered with the token of the first and returned false.
C24_Witness ==
    /\ url_last.called
    /\ url_checks = 2
    /\ url_last.reply.status = 200
    /\ url_last.reply.text = <<Uuid4(1)>>
    /\ ~url_last.ret

-----------------------------------------------------------------------------
(* C27 *)

\* C27: once generate_jwk has been called, the exposed key set holds the public
\* half of every key generated, one entry per call, each under its own key id;
\* the signing key is the one generated last and its id is among the exposed
\* ones, as is the kid of the token of every request the sender posts; what
\* the JWKS endpoint returned is that set as it was when it was asked.
C27_KeySetInvariant ==
    Len(generated) >= 1 =>
        /\ public_keys = generated
        /\ \A i, j \in DOMAIN public_keys : i # j => public_keys[i] # public_keys[j]
        /\ private_key_jwk = generated[Len(generated)]
        /\ private_key_jwk \in Range(public_keys)
        /\ from_sender => request.auth_header.credentials.kid \in Range(public_keys)
        /\ jwks_served[1] = "keys" =>
               jwks_served[2] = SubSeq(public_keys, 1, Len(jwks_served[2]))

\* Two keys have been generated and a request signed with the second is out.
C27_Witness ==
    /\ Len(generated) = 2
    /\ Len(public_keys) = 2
    /\ from_sender
    /\ request.auth_header.credentials.kid = 2
    /\ jwks_served = <<"keys", public_keys>>

\* Every key with a recorded expiry is a key of the value map.
IndexWithinValues(inst) == DOMAIN inst.ttl \subseteq DOMAIN inst.cache_data

\* C26: under any interleaving of set, get, delete and clear calls from several
\* threads, whenever no call is inside a with block of an instance, every key
\* with a recorded expiry in that instance is also a key of its value map; and a
\* call that is inside a body holds the instance's data lock, so no two calls
\* are ever inside bodies of the same instance and none sees the statements of
\* another half done.
C26_IndexConsistent ==
    /\ \A obj \in 1..Len(instances) :
          instances[obj].data_lock = 0 => IndexWithinValues(instances[obj])
    /\ \A t \in Threads :
          InBody(t) => instances[cache_op[t].obj].data_lock = t
    /\ \A t1, t2 \in Threads :
          (t1 # t2 /\ InBody(t1) /\ InBody(t2))
              => cache_op[t1].obj # cache_op[t2].obj

\* A get is half way through an eviction (the value is gone, the expiry is still
\* recorded) on an instance that holds an entry another thread can ask for.
C26_Witness ==
    \E t \in Threads :
        /\ cache_op[t].name = "get"
        /\ cache_op[t].step = "del_index"
        /\ ~IndexWithinValues(instances[cache_op[t].obj])
        /\ DOMAIN instances[cache_op[t].obj].cache_data # {}

=============================================================================
